---- MODULE Spec2Model ----
(***************************************************************************)
(* Model of the marketing-intelligence scoring core: the Suggestion        *)
(* Engine and the chat-session handlers that feed it, the Alert Engine,    *)
(* the Benchmark Engine's KPI scoring and the Channel Mix Analyzer's       *)
(* budget-shift heuristic.                                                 *)
(*                                                                         *)
(* Python floats are modelled as exact rationals, fractions [num, den] in  *)
(* lowest terms compared by cross multiplication (float rounding is not    *)
(* modelled).  Python strings are TLA+ strings, lists are sequences, dicts *)
(* are functions whose DOMAIN is the set of keys present.                  *)
(***************************************************************************)
EXTENDS Integers, Sequences, FiniteSets, TLC

VARIABLES
    session,        \* the ChatSession row: mode, context, discussed_topics, dismissed_suggestions
    messages,       \* the session's ChatMessage rows, oldest first
    call,           \* the arguments of the current / last get_suggestions call
    out,            \* the list that call returned
    sg_pc           \* "ready": call not yet made, "done": out is the result of call

sgVars == <<session, messages, call, out, sg_pc>>

VARIABLES
    thresholds,     \* AlertEngine.thresholds
    alert_counter,  \* AlertEngine._alert_counter
    threads         \* per request thread: its check_metrics call in progress

alVars == <<thresholds, alert_counter, threads>>

VARIABLES
    kpi_call,       \* the arguments of a _score_kpi call: the KPIDefinition and the actual value
    kpi_score,      \* the KPIScore it returned
    bn_pc           \* "ready" before the call, "done" after it

bnVars == <<kpi_call, kpi_score, bn_pc>>

VARIABLES
    channel_data,   \* the argument of analyze_channel_mix: (channel, ChannelMetrics) in dict order
    mix,            \* the ChannelMix it returned
    ch_pc           \* "ready" before the call, "done" after it

chVars == <<channel_data, mix, ch_pc>>

VARIABLES
    funnel_call,    \* an analyze_funnel call: the optimizer's stages and the stage_data argument
    funnel,         \* the stage metrics it computed
    fn_pc           \* "ready" before the call, "done" after it

fnVars == <<funnel_call, funnel, fn_pc>>

(* Campaign scoring: the engine's components and the values of one score   *)
(* call, the component scores it built, the rest of the CampaignScore it   *)
(* returned, and the position of the call.                                 *)
VARIABLES
    campaign_call,
    component_scores,
    campaign_score,
    cp_pc

cpVars == <<campaign_call, component_scores, campaign_score, cp_pc>>

(* Benchmark analysis: one BenchmarkEngine and the analyze calls made on   *)
(* it so far, each with its arguments and the report it returned.          *)
VARIABLES
    engine,
    reports

anVars == <<engine, reports>>

(* Topic extraction: the message of one extract_topics call, the topics it *)
(* returned, and the position of the call.                                 *)
VARIABLES
    topic_message,
    extracted_topics,
    tp_pc

tpVars == <<topic_message, extracted_topics, tp_pc>>

(* The rating ladders: one score, and the level each of the four rating    *)
(* methods returned for it.                                                *)
VARIABLES
    rated_score,
    levels,
    rt_pc

rtVars == <<rated_score, levels, rt_pc>>

(* Funnel simulation: the arguments of one simulate_improvement call, the  *)
(* modified_data it built, the dict it returned, and the position of the   *)
(* call.                                                                   *)
VARIABLES
    sim_call,
    sim_modified,
    sim_result,
    sm_pc

smVars == <<sim_call, sim_modified, sim_result, sm_pc>>

(* The check_metrics calls that have returned on the engine, oldest first: *)
(* the alerts each returned and the id counter at its return.              *)
VARIABLES
    alert_log

lgVars == <<alert_log>>

vars == <<session, messages, call, out, sg_pc, thresholds, alert_counter, threads,
          kpi_call, kpi_score, bn_pc, channel_data, mix, ch_pc,
          funnel_call, funnel, fn_pc,
          campaign_call, component_scores, campaign_score, cp_pc,
          engine, reports,
          topic_message, extracted_topics, tp_pc,
          rated_score, levels, rt_pc,
          sim_call, sim_modified, sim_result, sm_pc,
          alert_log>>

-----------------------------------------------------------------------------
(* Generic helpers: Python dict.get, list membership, min / max.           *)

EmptyDict == [k \in {} |-> 0]

Get(d, k, default) == IF k \in DOMAIN d THEN d[k] ELSE default

Range(s) == {s[i] : i \in 1..Len(s)}

Min(a, b) == IF a <= b THEN a ELSE b

Max(a, b) == IF a >= b THEN a ELSE b

RECURSIVE SetToSeq(_)
SetToSeq(S) ==
    IF S = {} THEN <<>>
    ELSE LET x == CHOOSE y \in S : TRUE IN <<x>> \o SetToSeq(S \ {x})

(* str.lower() on the ASCII letters.                                       *)
LowerChar(c) ==
    CASE c = "A" -> "a" [] c = "B" -> "b" [] c = "C" -> "c" [] c = "D" -> "d"
      [] c = "E" -> "e" [] c = "F" -> "f" [] c = "G" -> "g" [] c = "H" -> "h"
      [] c = "I" -> "i" [] c = "J" -> "j" [] c = "K" -> "k" [] c = "L" -> "l"
      [] c = "M" -> "m" [] c = "N" -> "n" [] c = "O" -> "o" [] c = "P" -> "p"
      [] c = "Q" -> "q" [] c = "R" -> "r" [] c = "S" -> "s" [] c = "T" -> "t"
      [] c = "U" -> "u" [] c = "V" -> "v" [] c = "W" -> "w" [] c = "X" -> "x"
      [] c = "Y" -> "y" [] c = "Z" -> "z" [] OTHER -> c

RECURSIVE Lower(_)
Lower(s) ==
    IF Len(s) = 0 THEN ""
    ELSE LowerChar(SubSeq(s, 1, 1)) \o Lower(SubSeq(s, 2, Len(s)))

(* Python's `kw in text` on strings: kw occurs as a contiguous substring.  *)
Contains(text, kw) ==
    \E i \in 1..(Len(text) - Len(kw) + 1) : SubSeq(text, i, i + Len(kw) - 1) = kw

-----------------------------------------------------------------------------
(* Suggestion Engine: the tables.                                          *)

(* BASE_PROMPTS: per mode, the (prompt_text, tags) pairs in table order.   *)
BASE_PROMPTS ==
    [general |-> <<
        [text |-> "What are the top marketing priorities I should focus on?", tags |-> <<"priorities", "strategy">>],
        [text |-> "How is our overall marketing performance?", tags |-> <<"performance", "overview">>],
        [text |-> "What quick wins can we achieve this quarter?", tags |-> <<"quick-wins", "tactics">>] >>,
     campaign_analysis |-> <<
        [text |-> "Which campaigns are underperforming and why?", tags |-> <<"campaigns", "performance">>],
        [text |-> "What's the ROI breakdown by campaign type?", tags |-> <<"campaigns", "roi">>],
        [text |-> "How do our campaigns compare to benchmarks?", tags |-> <<"campaigns", "benchmarks">>] >>,
     channel_optimization |-> <<
        [text |-> "Which channels should we invest more in?", tags |-> <<"channels", "investment">>],
        [text |-> "Where are we wasting marketing spend?", tags |-> <<"channels", "waste", "efficiency">>],
        [text |-> "How should we reallocate our channel budget?", tags |-> <<"channels", "budget">>] >>,
     roi_review |-> <<
        [text |-> "What's our overall marketing ROI?", tags |-> <<"roi", "overview">>],
        [text |-> "Which activities have the best cost-per-acquisition?", tags |-> <<"roi", "cpa">>],
        [text |-> "How can we improve our return on ad spend?", tags |-> <<"roi", "roas">>] >>,
     content_strategy |-> <<
        [text |-> "What content is driving the most engagement?", tags |-> <<"content", "engagement">>],
        [text |-> "Where are the gaps in our content funnel?", tags |-> <<"content", "funnel">>],
        [text |-> "Which content types should we produce more of?", tags |-> <<"content", "strategy">>] >>,
     funnel_analysis |-> <<
        [text |-> "Where are prospects dropping off in our funnel?", tags |-> <<"funnel", "dropoff">>],
        [text |-> "How can we improve conversion rates?", tags |-> <<"funnel", "conversion">>],
        [text |-> "What's causing cart abandonment?", tags |-> <<"funnel", "abandonment">>] >>,
     benchmark_discussion |-> <<
        [text |-> "How do we compare to industry benchmarks?", tags |-> <<"benchmarks", "comparison">>],
        [text |-> "Where are we behind competitors?", tags |-> <<"benchmarks", "competitors">>],
        [text |-> "What KPIs should we prioritize improving?", tags |-> <<"benchmarks", "kpis">>] >>,
     marketing_planning |-> <<
        [text |-> "Help me plan next quarter's marketing strategy", tags |-> <<"planning", "strategy">>],
        [text |-> "What should our marketing goals be?", tags |-> <<"planning", "goals">>],
        [text |-> "How should we allocate our marketing budget?", tags |-> <<"planning", "budget">>] >>]

(* The 'condition' lambdas of CONTEXT_TRIGGERS, by trigger name.  Metric   *)
(* values are integers; cac > clv * 0.3 is compared as 10*cac > 3*clv.     *)
Metrics(ctx) == Get(ctx, "metrics", EmptyDict)

Condition(name, ctx) ==
    CASE name = "low_roas" -> Get(Metrics(ctx), "roas", 999) < 150
      [] name = "high_cac" ->
            10 * Get(Metrics(ctx), "cac", 0) > 3 * Get(Metrics(ctx), "clv", 999)
      [] name = "negative_roi" -> Get(Metrics(ctx), "marketing_roi", 100) < 0
      [] name = "underperforming_channel" ->
            LET chs == Get(ctx, "channels", <<>>)
            IN  \E i \in 1..Len(chs) : Get(chs[i], "efficiency_score", 100) < 50
      [] name = "high_performing_channel" ->
            LET chs == Get(ctx, "channels", <<>>)
            IN  \E i \in 1..Len(chs) : Get(chs[i], "roas", 0) > 400
      [] name = "campaigns_below_benchmark" ->
            LET cs == Get(ctx, "campaigns", <<>>)
            IN  Cardinality({i \in 1..Len(cs) : Get(cs[i], "overall_score", 100) < 60}) >= 2
      [] name = "below_industry_average" ->
            Get(Get(ctx, "benchmark", EmptyDict), "overall_score", 100) < 70
      [] name = "low_engagement" -> Get(Metrics(ctx), "social_engagement_rate", 100) < 1
      [] name = "high_churn" -> Get(Metrics(ctx), "churn_rate", 0) > 10
      [] name = "low_conversion" -> Get(Metrics(ctx), "conversion_rate", 100) < 2

(* A context value that is no dict (a string, a number, None) where the    *)
(* lambdas call .get on it or _format_prompt unpacks it with **.           *)
NotADict == [not_a_dict |-> 0]

IsDict(v) == "not_a_dict" \notin DOMAIN v

(* The 'condition' lambda of a trigger raises: .get on a metrics or        *)
(* benchmark value that is no dict (AttributeError); any() stops at the    *)
(* first channel that satisfies it, so it raises on a channel that is no   *)
(* dict only when no earlier channel did; the list comprehension over the  *)
(* campaigns visits every campaign.                                        *)
ConditionRaises(name, ctx) ==
    CASE name \in {"low_roas", "high_cac", "negative_roi", "low_engagement",
                   "high_churn", "low_conversion"} -> ~IsDict(Metrics(ctx))
      [] name = "underperforming_channel" ->
            LET chs == Get(ctx, "channels", <<>>)
            IN  \E i \in 1..Len(chs) :
                    /\ ~IsDict(chs[i])
                    /\ \A j \in 1..(i - 1) :
                            IsDict(chs[j]) /\ ~(Get(chs[j], "efficiency_score", 100) < 50)
      [] name = "high_performing_channel" ->
            LET chs == Get(ctx, "channels", <<>>)
            IN  \E i \in 1..Len(chs) :
                    /\ ~IsDict(chs[i])
                    /\ \A j \in 1..(i - 1) : IsDict(chs[j]) /\ ~(Get(chs[j], "roas", 0) > 400)
      [] name = "campaigns_below_benchmark" ->
            LET cs == Get(ctx, "campaigns", <<>>)
            IN  \E i \in 1..Len(cs) : ~IsDict(cs[i])
      [] name = "below_industry_average" -> ~IsDict(Get(ctx, "benchmark", EmptyDict))

(* _format_prompt raises: {**metrics, **benchmark} on a value that is no   *)
(* mapping (TypeError, not the KeyError it catches).                       *)
FormatRaises(context) ==
    \/ ~IsDict(Get(context, "metrics", EmptyDict))
    \/ ~IsDict(Get(context, "benchmark", EmptyDict))

(* CONTEXT_TRIGGERS in dict (insertion) order.  A prompt template with one *)
(* placeholder {key} is held as the text before it, the key and the text   *)
(* after it; key = "" is a template without placeholder.                   *)
CONTEXT_TRIGGERS == <<
    [name |-> "low_roas", pre |-> "Your ROAS is ", key |-> "roas",
     post |-> "%, below the 150% threshold. What's driving the low return?",
     category |-> "urgent", relevance |-> 95, tags |-> <<"roi", "roas", "urgent">>],
    [name |-> "high_cac", pre |-> "Your CAC ($", key |-> "cac",
     post |-> ") is high relative to CLV. Should we discuss acquisition efficiency?",
     category |-> "urgent", relevance |-> 90, tags |-> <<"cac", "clv", "efficiency">>],
    [name |-> "negative_roi", pre |-> "Marketing ROI is negative (", key |-> "marketing_roi",
     post |-> "%). Let's identify the problem areas.",
     category |-> "urgent", relevance |-> 98, tags |-> <<"roi", "urgent", "loss">>],
    [name |-> "underperforming_channel",
     pre |-> "Some channels are underperforming. Should we review channel efficiency?",
     key |-> "", post |-> "",
     category |-> "opportunity", relevance |-> 85, tags |-> <<"channels", "efficiency", "optimization">>],
    [name |-> "high_performing_channel",
     pre |-> "You have high-performing channels (ROAS > 400%). Ready to scale them?",
     key |-> "", post |-> "",
     category |-> "opportunity", relevance |-> 80, tags |-> <<"channels", "scaling", "growth">>],
    [name |-> "campaigns_below_benchmark",
     pre |-> "Multiple campaigns are below benchmark. Let's analyze what's not working.",
     key |-> "", post |-> "",
     category |-> "urgent", relevance |-> 88, tags |-> <<"campaigns", "performance", "analysis">>],
    [name |-> "below_industry_average", pre |-> "Your benchmark score (", key |-> "overall_score",
     post |-> ") is below industry average. Where should we focus?",
     category |-> "opportunity", relevance |-> 82, tags |-> <<"benchmarks", "improvement", "strategy">>],
    [name |-> "low_engagement", pre |-> "Social engagement is low (", key |-> "social_engagement_rate",
     post |-> "%). How can we boost it?",
     category |-> "opportunity", relevance |-> 75, tags |-> <<"content", "engagement", "social">>],
    [name |-> "high_churn", pre |-> "Churn rate is ", key |-> "churn_rate",
     post |-> "%, above healthy levels. Let's discuss retention strategies.",
     category |-> "urgent", relevance |-> 92, tags |-> <<"retention", "churn", "customers">>],
    [name |-> "low_conversion", pre |-> "Conversion rate is only ", key |-> "conversion_rate",
     post |-> "%. What's blocking conversions?",
     category |-> "opportunity", relevance |-> 85, tags |-> <<"conversion", "funnel", "optimization">>] >>

(* follow_up_triggers of _generate_follow_ups, in list order.              *)
follow_up_triggers == <<
    [keywords |-> <<"recommend", "suggest", "should consider">>,
     prompt |-> "Can you elaborate on those recommendations?",
     tags |-> <<"follow-up", "recommendations">>],
    [keywords |-> <<"campaign", "campaigns">>,
     prompt |-> "Which specific campaign should we focus on first?",
     tags |-> <<"follow-up", "campaigns">>],
    [keywords |-> <<"budget", "spend", "investment">>,
     prompt |-> "How should we reallocate budget based on this?",
     tags |-> <<"follow-up", "budget">>],
    [keywords |-> <<"roi", "return", "roas">>,
     prompt |-> "What's the fastest way to improve our ROI?",
     tags |-> <<"follow-up", "roi">>] >>

(* topic_keywords of extract_topics, in dict order.                        *)
topic_keywords == <<
    [topic |-> "roi", keywords |-> <<"roi", "return", "roas", "profitability">>],
    [topic |-> "campaigns", keywords |-> <<"campaign", "campaigns", "ads", "advertising">>],
    [topic |-> "channels", keywords |-> <<"channel", "channels", "paid", "organic", "social">>],
    [topic |-> "content", keywords |-> <<"content", "blog", "video", "article">>],
    [topic |-> "conversion", keywords |-> <<"conversion", "convert", "funnel", "leads">>],
    [topic |-> "budget", keywords |-> <<"budget", "spend", "investment", "cost">>],
    [topic |-> "benchmarks", keywords |-> <<"benchmark", "compare", "industry", "competitors">>],
    [topic |-> "retention", keywords |-> <<"retention", "churn", "loyalty", "customer lifetime">>],
    [topic |-> "engagement", keywords |-> <<"engagement", "engagement rate", "interaction">>] >>

-----------------------------------------------------------------------------
(* Suggestion Engine: the methods.                                         *)

(* str.replace('_', ' ') of the rationale strings.                         *)
RECURSIVE ReplaceUnderscore(_)
ReplaceUnderscore(s) ==
    IF Len(s) = 0 THEN ""
    ELSE (IF SubSeq(s, 1, 1) = "_" THEN " " ELSE SubSeq(s, 1, 1))
         \o ReplaceUnderscore(SubSeq(s, 2, Len(s)))

(* _format_prompt: str.format over {**metrics, **benchmark}; a missing key *)
(* (KeyError) returns the template unformatted.                            *)
format_prompt(trigger, context) ==
    LET metrics == Get(context, "metrics", EmptyDict)
        benchmark == Get(context, "benchmark", EmptyDict)
        format_dict == benchmark @@ metrics
    IN  IF trigger.key = "" THEN trigger.pre
        ELSE IF trigger.key \in DOMAIN format_dict
             THEN trigger.pre \o ToString(format_dict[trigger.key]) \o trigger.post
             ELSE trigger.pre \o "{" \o trigger.key \o "}" \o trigger.post

(* _is_topic_discussed with all() in place of any(): a prompt counts as    *)
(* discussed only when every one of its tags is.                           *)
is_topic_discussed_all(tags, discussed) ==
    \A i \in 1..Len(tags) : tags[i] \in Range(discussed)

(* _is_topic_discussed: any(tag in discussed for tag in tags).             *)
is_topic_discussed(tags, discussed) ==
    \E i \in 1..Len(tags) : tags[i] \in Range(discussed)

(* Python's seq[:n].                                                       *)
Prefix(s, n) ==
    IF n >= 0 THEN SubSeq(s, 1, Min(n, Len(s)))
    ELSE SubSeq(s, 1, Max(0, Len(s) + n))

(* Python's seq[-n:] for n > 0.                                            *)
Suffix(s, n) == SubSeq(s, Max(1, Len(s) - n + 1), Len(s))

(* The loop of _generate_follow_ups over follow_up_triggers.               *)
RECURSIVE FollowUpLoop(_, _, _, _)
FollowUpLoop(i, last_response, discussed, follow_ups) ==
    IF i > Len(follow_up_triggers) THEN follow_ups
    ELSE LET trigger == follow_up_triggers[i]
             hit == /\ \E k \in 1..Len(trigger.keywords) :
                            Contains(last_response, trigger.keywords[k])
                    /\ ~is_topic_discussed(trigger.tags, discussed)
             item == [prompt_text |-> trigger.prompt,
                      relevance_score |-> 70,
                      category |-> "follow_up",
                      rationale |-> "Follow up on our previous discussion",
                      topic_tags |-> trigger.tags]
         IN  FollowUpLoop(i + 1, last_response, discussed,
                          IF hit THEN Append(follow_ups, item) ELSE follow_ups)

(* _generate_follow_ups reading the whole history instead of history[-4:]. *)
generate_follow_ups_whole_history(history, discussed) ==
    IF Len(history) = 0 THEN <<>>
    ELSE LET last_messages == SelectSeq(history, LAMBDA m : Get(m, "role", "") = "assistant")
         IN  IF Len(last_messages) = 0 THEN <<>>
             ELSE LET last_response ==
                          Lower(Get(last_messages[Len(last_messages)], "content", ""))
                  IN  Prefix(FollowUpLoop(1, last_response, discussed, <<>>), 2)

(* _generate_follow_ups: the latest assistant message among history[-4:],  *)
(* at most two follow-ups.                                                 *)
generate_follow_ups(history, discussed) ==
    IF Len(history) = 0 THEN <<>>
    ELSE LET last_messages == SelectSeq(Suffix(history, 4),
                                        LAMBDA m : Get(m, "role", "") = "assistant")
         IN  IF Len(last_messages) = 0 THEN <<>>
             ELSE LET last_response ==
                          Lower(Get(last_messages[Len(last_messages)], "content", ""))
                  IN  Prefix(FollowUpLoop(1, last_response, discussed, <<>>), 2)

(* The trigger loop with `break` in place of `continue` in the except      *)
(* clause: the first rule that raises ends the loop.                       *)
RECURSIVE TriggerLoopBreaking(_, _, _, _, _)
TriggerLoopBreaking(i, context, discussed_topics, dismissed_prompts, suggestions) ==
    IF i > Len(CONTEXT_TRIGGERS) THEN suggestions
    ELSE LET trigger == CONTEXT_TRIGGERS[i]
             prompt_text == format_prompt(trigger, context)
             raised == \/ ConditionRaises(trigger.name, context)
                       \/ Condition(trigger.name, context) /\ FormatRaises(context)
             keep == /\ Condition(trigger.name, context)
                     /\ ~is_topic_discussed(trigger.tags, discussed_topics)
                     /\ prompt_text \notin Range(dismissed_prompts)
             item == [prompt_text |-> prompt_text,
                      relevance_score |-> trigger.relevance,
                      category |-> trigger.category,
                      rationale |-> "Based on your current "
                                    \o ReplaceUnderscore(trigger.name) \o " metrics",
                      topic_tags |-> trigger.tags]
         IN  IF raised THEN suggestions
             ELSE TriggerLoopBreaking(i + 1, context, discussed_topics, dismissed_prompts,
                                      IF keep THEN Append(suggestions, item) ELSE suggestions)

(* Step 1 of get_suggestions: the loop over CONTEXT_TRIGGERS.  A rule      *)
(* whose condition or prompt formatting raises is skipped by the except    *)
(* clause.                                                                 *)
RECURSIVE TriggerLoop(_, _, _, _, _)
TriggerLoop(i, context, discussed_topics, dismissed_prompts, suggestions) ==
    IF i > Len(CONTEXT_TRIGGERS) THEN suggestions
    ELSE LET trigger == CONTEXT_TRIGGERS[i]
             prompt_text == format_prompt(trigger, context)
             raised == \/ ConditionRaises(trigger.name, context)
                       \/ Condition(trigger.name, context) /\ FormatRaises(context)
             keep == /\ ~raised
                     /\ Condition(trigger.name, context)
                     /\ ~is_topic_discussed(trigger.tags, discussed_topics)
                     /\ prompt_text \notin Range(dismissed_prompts)
             item == [prompt_text |-> prompt_text,
                      relevance_score |-> trigger.relevance,
                      category |-> trigger.category,
                      rationale |-> "Based on your current "
                                    \o ReplaceUnderscore(trigger.name) \o " metrics",
                      topic_tags |-> trigger.tags]
         IN  TriggerLoop(i + 1, context, discussed_topics, dismissed_prompts,
                         IF keep THEN Append(suggestions, item) ELSE suggestions)

(* The relevance of a base prompt without max(relevance, 20).              *)
BaseRelevanceUnfloored(n) == 50 - n * 5

(* Step 2 of get_suggestions: the loop over the mode's base prompts.       *)
BaseRelevance(n) == Max(50 - n * 5, 20)

RECURSIVE BaseLoop(_, _, _, _, _, _)
BaseLoop(i, base_prompts, mode, discussed_topics, dismissed_prompts, suggestions) ==
    IF i > Len(base_prompts) THEN suggestions
    ELSE LET p == base_prompts[i]
             keep == /\ ~is_topic_discussed(p.tags, discussed_topics)
                     /\ p.text \notin Range(dismissed_prompts)
             item == [prompt_text |-> p.text,
                      relevance_score |-> BaseRelevance(Len(suggestions)),
                      category |-> "general",
                      rationale |-> "Common question for " \o ReplaceUnderscore(mode),
                      topic_tags |-> p.tags]
         IN  BaseLoop(i + 1, base_prompts, mode, discussed_topics, dismissed_prompts,
                      IF keep THEN Append(suggestions, item) ELSE suggestions)

(* The sort without reverse=True: ascending relevance.                     *)
RECURSIVE InsertAscending(_, _)
InsertAscending(sorted, x) ==
    IF Len(sorted) = 0 THEN <<x>>
    ELSE IF Head(sorted).relevance_score <= x.relevance_score
         THEN <<Head(sorted)>> \o InsertAscending(Tail(sorted), x)
         ELSE <<x>> \o sorted

RECURSIVE SortAscending(_)
SortAscending(s) ==
    IF Len(s) = 0 THEN <<>>
    ELSE InsertAscending(SortAscending(SubSeq(s, 1, Len(s) - 1)), s[Len(s)])

(* The insertion placing x before the elements of equal relevance: a sort  *)
(* that does not keep the insertion order of ties.                         *)
RECURSIVE InsertBeforeEqualRelevance(_, _)
InsertBeforeEqualRelevance(sorted, x) ==
    IF Len(sorted) = 0 THEN <<x>>
    ELSE IF Head(sorted).relevance_score > x.relevance_score
         THEN <<Head(sorted)>> \o InsertBeforeEqualRelevance(Tail(sorted), x)
         ELSE <<x>> \o sorted

(* list.sort(key=relevance_score, reverse=True): a stable sort, equal keys *)
(* keep their order.  Insertion sort placing x after every element whose   *)
(* key is >= x's.                                                          *)
RECURSIVE InsertByRelevance(_, _)
InsertByRelevance(sorted, x) ==
    IF Len(sorted) = 0 THEN <<x>>
    ELSE IF Head(sorted).relevance_score >= x.relevance_score
         THEN <<Head(sorted)>> \o InsertByRelevance(Tail(sorted), x)
         ELSE <<x>> \o sorted

RECURSIVE SortByRelevance(_)
SortByRelevance(s) ==
    IF Len(s) = 0 THEN <<>>
    ELSE InsertByRelevance(SortByRelevance(SubSeq(s, 1, Len(s) - 1)), s[Len(s)])

(* The candidate list of get_suggestions before the sort.                  *)
Candidates(mode, context, conversation_history, discussed_topics, dismissed_prompts) ==
    LET triggered == TriggerLoop(1, context, discussed_topics, dismissed_prompts, <<>>)
        base_prompts == Get(BASE_PROMPTS, mode, BASE_PROMPTS["general"])
        with_base == BaseLoop(1, base_prompts, mode, discussed_topics,
                              dismissed_prompts, triggered)
    IN  IF Len(conversation_history) > 0
        THEN with_base \o generate_follow_ups(conversation_history, discussed_topics)
        ELSE with_base

(* get_suggestions without the final [:max_suggestions].                   *)
get_suggestions_unsliced(mode, context, conversation_history, discussed_topics, dismissed_prompts, max_suggestions) ==
    SortByRelevance(Candidates(mode, context, conversation_history,
                               discussed_topics, dismissed_prompts))

get_suggestions(mode, context, conversation_history, discussed_topics, dismissed_prompts, max_suggestions) ==
    Prefix(SortByRelevance(Candidates(mode, context, conversation_history,
                                      discussed_topics, dismissed_prompts)),
           max_suggestions)

(* extract_topics: topics whose keyword list has a keyword in the lowered  *)
(* message, in table order.                                                *)
RECURSIVE TopicLoop(_, _, _)
TopicLoop(i, message_lower, topics) ==
    IF i > Len(topic_keywords) THEN topics
    ELSE LET e == topic_keywords[i]
             hit == \E k \in 1..Len(e.keywords) : Contains(message_lower, e.keywords[k])
         IN  TopicLoop(i + 1, message_lower, IF hit THEN Append(topics, e.topic) ELSE topics)

(* extract_topics without message.lower().                                 *)
extract_topics_case_sensitive(message) == TopicLoop(1, message, <<>>)

extract_topics(message) == TopicLoop(1, Lower(message), <<>>)

-----------------------------------------------------------------------------
(* Inputs of the Suggestion Engine, drawn from bounded sets.               *)

MaxSuggestions == 4     \* max_suggestions ranges over 0..MaxSuggestions
MaxDiscussed == 2       \* at most this many discussed topics
MaxDismissed == 1       \* at most this many dismissed prompts in a direct call
MaxMessages == 2        \* at most this many messages added to a session
MaxSessionDismissed == 1 \* at most this many prompts dismissed in a session

(* Every rule triggers; the benchmark dict also overrides no metric key.   *)
CtxAll ==
    [metrics |-> [roas |-> 120, cac |-> 400, clv |-> 1000, marketing_roi |-> -5,
                  social_engagement_rate |-> 0, churn_rate |-> 12, conversion_rate |-> 1],
     channels |-> <<[efficiency_score |-> 40, roas |-> 450]>>,
     campaigns |-> <<[overall_score |-> 50], [overall_score |-> 55]>>,
     benchmark |-> [overall_score |-> 65]]

(* Only low_roas triggers.                                                 *)
CtxRoas == [metrics |-> [roas |-> 120]]

(* high_cac triggers with no cac key: its template stays unformatted.      *)
CtxNoCac == [metrics |-> [clv |-> -10], channels |-> <<[efficiency_score |-> 45]>>]

(* A channel that is no dict after one that is: underperforming_channel    *)
(* is decided before reaching it, high_performing_channel raises on it;    *)
(* low_roas before and campaigns_below_benchmark after them trigger.       *)
CtxBadChannel ==
    [metrics |-> [roas |-> 120],
     channels |-> <<[efficiency_score |-> 40], NotADict>>,
     campaigns |-> <<[overall_score |-> 50], [overall_score |-> 55]>>]

(* A benchmark that is no dict: below_industry_average raises in its       *)
(* condition, low_roas in the formatting of its prompt.                    *)
CtxBadBenchmark == [metrics |-> [roas |-> 120], benchmark |-> NotADict]

(* Five rules trigger: the mode defaults start five above the floor.       *)
CtxFive ==
    [metrics |-> [roas |-> 130, marketing_roi |-> -1, social_engagement_rate |-> 0,
                  churn_rate |-> 11, conversion_rate |-> 1]]

Contexts == {EmptyDict, CtxAll, CtxRoas, CtxNoCac, CtxBadChannel, CtxBadBenchmark, CtxFive}

Modes == {"general", "roi_review", "unknown_mode"}

MsgUserRoi == [role |-> "user", content |-> "What's our ROI by channel?"]
MsgAsstAll == [role |-> "assistant",
               content |-> "I recommend moving budget to your best campaigns to lift ROI."]
MsgAsstSpend == [role |-> "assistant", content |-> "Spend is on track."]
MsgUserOk == [role |-> "user", content |-> "OK"]

SampleMessages == {MsgUserRoi, MsgAsstAll, MsgAsstSpend, MsgUserOk}

Histories ==
    { <<>>,
      <<MsgUserRoi>>,
      <<MsgUserRoi, MsgAsstAll>>,
      <<MsgAsstSpend, MsgUserOk>>,
      <<MsgAsstAll, MsgUserRoi, MsgAsstSpend>>,
      <<MsgAsstAll, MsgUserOk, MsgUserOk, MsgUserOk, MsgUserOk>> }

TopicPool == {"roi", "channels", "follow-up", "strategy"}

PromptPool ==
    { "How is our overall marketing performance?",
      "Your ROAS is 120%, below the 150% threshold. What's driving the low return?",
      "Can you elaborate on those recommendations?" }

SubsetsUpTo(S, n) == {T \in SUBSET S : Cardinality(T) <= n}

NoCall ==
    [mode |-> "general", context |-> EmptyDict, conversation_history |-> <<>>,
     discussed_topics |-> <<>>, dismissed_prompts |-> <<>>, max_suggestions |-> 0]

NoSession ==
    [mode |-> "general", context |-> EmptyDict,
     discussed_topics |-> <<>>, dismissed_suggestions |-> <<>>]

SuggestIdle ==
    /\ session = NoSession
    /\ messages = <<>>
    /\ call = NoCall
    /\ out = <<>>
    /\ sg_pc = "idle"

-----------------------------------------------------------------------------
(* Direct calls of the engine: the arguments are drawn in Init, the one    *)
(* action applies get_suggestions to them.                                 *)

InitSuggest ==
    /\ session = NoSession
    /\ messages = <<>>
    /\ \E m \in Modes, c \in Contexts, h \in Histories,
          d \in SubsetsUpTo(TopicPool, MaxDiscussed),
          x \in SubsetsUpTo(PromptPool, MaxDismissed),
          n \in 0..MaxSuggestions :
            call = [mode |-> m, context |-> c, conversation_history |-> h,
                    discussed_topics |-> SetToSeq(d), dismissed_prompts |-> SetToSeq(x),
                    max_suggestions |-> n]
    /\ out = <<>>
    /\ sg_pc = "ready"

(* A get_suggestions that records a topic in the discussed_topics list it  *)
(* was given.                                                              *)
GetSuggestionsRecordingTopic ==
    /\ sg_pc = "ready"
    /\ out' = get_suggestions(call.mode, call.context, call.conversation_history,
                              call.discussed_topics, call.dismissed_prompts,
                              call.max_suggestions)
    /\ sg_pc' = "done"
    /\ call' = [call EXCEPT !.discussed_topics = Append(@, "roi")]
    /\ UNCHANGED <<session, messages>>
    /\ UNCHANGED <<alVars, bnVars, chVars, fnVars, cpVars, anVars, tpVars, rtVars, smVars, lgVars>>

(* One get_suggestions call: it builds and returns a new list and assigns  *)
(* to none of its arguments and to no attribute of the engine.             *)
GetSuggestions ==
    /\ sg_pc = "ready"
    /\ out' = get_suggestions(call.mode, call.context, call.conversation_history,
                              call.discussed_topics, call.dismissed_prompts,
                              call.max_suggestions)
    /\ sg_pc' = "done"
    /\ UNCHANGED <<session, messages, call>>
    /\ UNCHANGED <<alVars, bnVars, chVars, fnVars, cpVars, anVars, tpVars, rtVars, smVars, lgVars>>

-----------------------------------------------------------------------------
(* The chat-session handlers of the web application, on one session.       *)

DefaultMaxSuggestions == 4

(* The sessions created: a mode with the context stored for it.            *)
SessionStarts ==
    { [mode |-> "general", context |-> CtxRoas],
      [mode |-> "roi_review", context |-> CtxNoCac] }

SessionMessages == {MsgUserRoi, MsgAsstAll, MsgAsstSpend}

InitSession ==
    /\ \E s \in SessionStarts :
            session = [mode |-> s.mode, context |-> s.context,
                       discussed_topics |-> <<>>, dismissed_suggestions |-> <<>>]
    /\ messages = <<>>
    /\ call = NoCall
    /\ out = <<>>
    /\ sg_pc = "idle"

(* A handler that returns no suggestion list: call and out describe the   *)
(* most recent request only.                                               *)
NoSuggestionsReturned ==
    /\ call' = NoCall
    /\ out' = <<>>
    /\ sg_pc' = "idle"

(* ChatRepository.add_message: one more message row.                       *)
add_message(msg) ==
    /\ Len(messages) < MaxMessages
    /\ messages' = Append(messages, msg)
    /\ NoSuggestionsReturned
    /\ UNCHANGED session
    /\ UNCHANGED <<alVars, bnVars, chVars, fnVars, cpVars, anVars, tpVars, rtVars, smVars, lgVars>>

(* GET /suggestions: get_suggestions on the session's stored state.        *)
api_chat_suggestions ==
    /\ call' = [mode |-> session.mode, context |-> session.context,
                conversation_history |-> messages,
                discussed_topics |-> session.discussed_topics,
                dismissed_prompts |-> session.dismissed_suggestions,
                max_suggestions |-> DefaultMaxSuggestions]
    /\ out' = get_suggestions(session.mode, session.context, messages,
                              session.discussed_topics, session.dismissed_suggestions,
                              DefaultMaxSuggestions)
    /\ sg_pc' = "done"
    /\ UNCHANGED <<session, messages>>
    /\ UNCHANGED <<alVars, bnVars, chVars, fnVars, cpVars, anVars, tpVars, rtVars, smVars, lgVars>>

(* What db.session.commit() stores after `session.<column> = assigned`.    *)
(* discussed_topics and dismissed_suggestions are plain db.JSON columns: a *)
(* non-empty loaded list is the very object the handler appends to and     *)
(* assigns back, so the ORM compares the list with itself and may issue no *)
(* UPDATE, and the row then keeps what it held.  An empty loaded list is   *)
(* replaced by a new one (`or []`), which is written.                      *)
Committed(loaded, assigned) ==
    IF Len(loaded) = 0 THEN {assigned} ELSE {assigned, loaded}

(* POST /dismiss: append the prompt unless empty or already there.         *)
api_dismiss_suggestion(prompt_text) ==
    /\ \/ Len(session.dismissed_suggestions) < MaxSessionDismissed
       \/ prompt_text \in Range(session.dismissed_suggestions)
    /\ \E stored \in Committed(session.dismissed_suggestions,
                IF prompt_text # "" /\ prompt_text \notin Range(session.dismissed_suggestions)
                THEN Append(session.dismissed_suggestions, prompt_text)
                ELSE session.dismissed_suggestions) :
          session' = [session EXCEPT !.dismissed_suggestions = stored]
    /\ NoSuggestionsReturned
    /\ UNCHANGED messages
    /\ UNCHANGED <<alVars, bnVars, chVars, fnVars, cpVars, anVars, tpVars, rtVars, smVars, lgVars>>

(* The loop of api_track_topics adding the topics not yet discussed.       *)
RECURSIVE AddTopics(_, _)
AddTopics(discussed, new_topics) ==
    IF Len(new_topics) = 0 THEN discussed
    ELSE AddTopics(IF Head(new_topics) \in Range(discussed) THEN discussed
                   ELSE Append(discussed, Head(new_topics)),
                   Tail(new_topics))

(* POST /topics: extract the message's topics and record them.             *)
api_track_topics(message) ==
    /\ \E stored \in Committed(session.discussed_topics,
                AddTopics(session.discussed_topics, extract_topics(message))) :
          session' = [session EXCEPT !.discussed_topics = stored]
    /\ NoSuggestionsReturned
    /\ UNCHANGED messages
    /\ UNCHANGED <<alVars, bnVars, chVars, fnVars, cpVars, anVars, tpVars, rtVars, smVars, lgVars>>

-----------------------------------------------------------------------------
(* Exact rationals for the float quotients: [num, den] with den > 0, in    *)
(* lowest terms.                                                           *)

Abs(x) == IF x < 0 THEN -x ELSE x

RECURSIVE GCD(_, _)
GCD(a, b) == IF b = 0 THEN a ELSE GCD(b, a % b)

Frac(n, d) ==
    LET g == GCD(Abs(n), Abs(d))
        sgn == IF d < 0 THEN -1 ELSE 1
    IN  [num |-> sgn * (n \div g), den |-> sgn * (d \div g)]

FInt(k) == [num |-> k, den |-> 1]

FLe(a, b) == a.num * b.den <= b.num * a.den
FLt(a, b) == a.num * b.den < b.num * a.den
FGe(a, b) == FLe(b, a)
FGt(a, b) == FLt(b, a)
FMin(a, b) == IF FLe(a, b) THEN a ELSE b
FAdd(a, b) == Frac(a.num * b.den + b.num * a.den, a.den * b.den)
FSub(a, b) == Frac(a.num * b.den - b.num * a.den, a.den * b.den)
FMul(a, b) == Frac(a.num * b.num, a.den * b.den)
FDiv(a, b) == Frac(a.num * b.den, a.den * b.num)
FAbs(a) == [num |-> Abs(a.num), den |-> a.den]

RECURSIVE FSum(_)
FSum(s) == IF Len(s) = 0 THEN FInt(0) ELSE FAdd(FSum(SubSeq(s, 1, Len(s) - 1)), s[Len(s)])

-----------------------------------------------------------------------------
(* Alert Engine.  One AlertEngine instance (created once in create_app),   *)
(* used by the request threads in Threads.  Every float (a ROAS, a channel *)
(* ROI, a threshold, a budget utilization) is an exact rational.           *)

Threads == {1, 2}

(* THRESHOLDS.                                                             *)
THRESHOLDS ==
    [roas_critical |-> FInt(1),
     roas_warning |-> FInt(2),
     roi_critical |-> FInt(0),
     roi_warning |-> FInt(50),
     spend_utilization_low |-> FInt(50),
     spend_utilization_high |-> FInt(95),
     conversion_rate_low |-> FInt(1),
     cpa_high_multiplier |-> FInt(2)]

severity_order == [critical |-> 0, warning |-> 1, info |-> 2]

NoAlert ==
    [severity |-> "", category |-> "", title |-> "", metric_name |-> "",
     current_value |-> FInt(0), threshold_value |-> FInt(0)]

IdleThread ==
    [pc |-> "idle", data |-> EmptyDict, pos |-> 0, alerts |-> <<>>,
     pending |-> NoAlert, tmp |-> 0]

(* AlertEngine.__init__ with no custom thresholds.                         *)
AlertInit ==
    /\ thresholds = THRESHOLDS
    /\ alert_counter = 0
    /\ threads = [t \in Threads |-> IdleThread]

RoasCritical(th, roas) ==
    [severity |-> "critical", category |-> "roi",
     title |-> "Critical: ROAS Below Break-Even", metric_name |-> "ROAS",
     current_value |-> roas, threshold_value |-> th.roas_critical]

RoasWarning(th, roas) ==
    [severity |-> "warning", category |-> "roi",
     title |-> "Warning: ROAS Needs Improvement", metric_name |-> "ROAS",
     current_value |-> roas, threshold_value |-> th.roas_warning]

(* The ROAS rule without its `if roas > 0` guard.                          *)
RoasRuleUnguarded(th, metrics) ==
    LET roas == Get(metrics, "roas", FInt(0))
    IN  IF FLt(roas, th.roas_critical) THEN RoasCritical(th, roas)
        ELSE IF FLt(roas, th.roas_warning) THEN RoasWarning(th, roas)
        ELSE NoAlert

(* The ROAS rule with its two threshold tests in the other order.          *)
RoasRuleWarningFirst(th, metrics) ==
    LET roas == Get(metrics, "roas", FInt(0))
    IN  IF FGt(roas, FInt(0))
        THEN IF FLt(roas, th.roas_warning) THEN RoasWarning(th, roas)
             ELSE IF FLt(roas, th.roas_critical) THEN RoasCritical(th, roas)
             ELSE NoAlert
        ELSE NoAlert

(* The ROAS rule of check_metrics: the alert it calls for, or NoAlert.     *)
RoasRule(th, metrics) ==
    LET roas == Get(metrics, "roas", FInt(0))
    IN  IF FGt(roas, FInt(0))
        THEN IF FLt(roas, th.roas_critical) THEN RoasCritical(th, roas)
             ELSE IF FLt(roas, th.roas_warning) THEN RoasWarning(th, roas)
             ELSE NoAlert
        ELSE NoAlert

(* The rule applied to one channel.                                        *)
ChannelRule(th, channel) ==
    LET channel_roi == Get(channel, "roi", FInt(0))
        channel_name == Get(channel, "name", "Unknown")
    IN  IF FLt(channel_roi, th.roi_critical)
        THEN [severity |-> "critical", category |-> "channel",
              title |-> "Critical: " \o channel_name \o " Has Negative ROI",
              metric_name |-> channel_name \o " ROI",
              current_value |-> channel_roi, threshold_value |-> FInt(0)]
        ELSE IF FLt(channel_roi, th.roi_warning)
        THEN [severity |-> "warning", category |-> "channel",
              title |-> "Warning: " \o channel_name \o " Underperforming",
              metric_name |-> channel_name \o " ROI",
              current_value |-> channel_roi, threshold_value |-> th.roi_warning]
        ELSE NoAlert

(* The rule applied to one campaign.                                       *)
CampaignRule(th, campaign) ==
    LET budget == Get(campaign, "budget", 0)
        spent == Get(campaign, "spent", 0)
        name == Get(campaign, "name", "Unknown")
        status == Get(campaign, "status", "")
    IN  IF budget > 0 /\ status = "active"
        THEN LET utilization == Frac(spent * 100, budget) IN
             IF FGt(utilization, th.spend_utilization_high)
             THEN [severity |-> "warning", category |-> "spend",
                   title |-> "Budget Nearly Exhausted: " \o name,
                   metric_name |-> "Budget Utilization",
                   current_value |-> utilization,
                   threshold_value |-> th.spend_utilization_high]
             ELSE IF FLt(utilization, th.spend_utilization_low)
             THEN [severity |-> "info", category |-> "spend",
                   title |-> "Low Budget Utilization: " \o name,
                   metric_name |-> "Budget Utilization",
                   current_value |-> utilization,
                   threshold_value |-> th.spend_utilization_low]
             ELSE NoAlert
        ELSE NoAlert

(* An insertion that places an alert before the alerts of its own          *)
(* severity: the sort it builds is ascending but not stable.               *)
RECURSIVE InsertBeforeEqual(_, _)
InsertBeforeEqual(sorted, a) ==
    IF Len(sorted) = 0 THEN <<a>>
    ELSE IF severity_order[Head(sorted).severity] < severity_order[a.severity]
         THEN <<Head(sorted)>> \o InsertBeforeEqual(Tail(sorted), a)
         ELSE <<a>> \o sorted

(* alerts.sort(key=severity_order[severity]): stable, ascending.           *)
RECURSIVE InsertBySeverity(_, _)
InsertBySeverity(sorted, a) ==
    IF Len(sorted) = 0 THEN <<a>>
    ELSE IF severity_order[Head(sorted).severity] <= severity_order[a.severity]
         THEN <<Head(sorted)>> \o InsertBySeverity(Tail(sorted), a)
         ELSE <<a>> \o sorted

RECURSIVE SortBySeverity(_)
SortBySeverity(s) ==
    IF Len(s) = 0 THEN <<>>
    ELSE InsertBySeverity(SortBySeverity(SubSeq(s, 1, Len(s) - 1)), s[Len(s)])

(* The rule evaluated at position pos of a call: 0 is the ROAS rule, then  *)
(* the channels in input order, then the campaigns in input order.         *)
Channels(data) == Get(data, "channels", <<>>)
Campaigns(data) == Get(data, "campaigns", <<>>)
LastPos(data) == Len(Channels(data)) + Len(Campaigns(data))

RuleAt(th, data, pos) ==
    IF pos = 0 THEN RoasRule(th, Get(data, "metrics", EmptyDict))
    ELSE IF pos <= Len(Channels(data)) THEN ChannelRule(th, Channels(data)[pos])
    ELSE CampaignRule(th, Campaigns(data)[pos - Len(Channels(data))])

(* A thread enters check_metrics(data).                                    *)
check_metrics(t, data) ==
    /\ threads[t].pc = "idle"
    /\ threads' = [threads EXCEPT ![t] =
                       [pc |-> "eval", data |-> data, pos |-> 0, alerts |-> <<>>,
                        pending |-> NoAlert, tmp |-> 0]]
    /\ UNCHANGED <<thresholds, alert_counter>>
    /\ UNCHANGED <<sgVars, bnVars, chVars, fnVars, cpVars, anVars, tpVars, rtVars, smVars, lgVars>>

(* It evaluates the rule at its position: no breach moves on, a breach     *)
(* starts building an Alert, whose first argument is _generate_id().       *)
Evaluate(t) ==
    LET me == threads[t]
        alert == RuleAt(thresholds, me.data, me.pos)
    IN  /\ me.pc = "eval"
        /\ me.pos <= LastPos(me.data)
        /\ threads' = [threads EXCEPT ![t] =
                           IF alert.severity = ""
                           THEN [me EXCEPT !.pos = me.pos + 1]
                           ELSE [me EXCEPT !.pc = "gen_read", !.pending = alert]]
        /\ UNCHANGED <<thresholds, alert_counter>>
        /\ UNCHANGED <<sgVars, bnVars, chVars, fnVars, cpVars, anVars, tpVars, rtVars, smVars, lgVars>>

(* _generate_id, `self._alert_counter += 1`: the load of the attribute ... *)
GenRead(t) ==
    /\ threads[t].pc = "gen_read"
    /\ threads' = [threads EXCEPT ![t].tmp = alert_counter, ![t].pc = "gen_write"]
    /\ UNCHANGED <<thresholds, alert_counter>>
    /\ UNCHANGED <<sgVars, bnVars, chVars, fnVars, cpVars, anVars, tpVars, rtVars, smVars, lgVars>>

(* A store that leaves the counter as it was.                              *)
GenWriteSameValue(t) ==
    /\ threads[t].pc = "gen_write"
    /\ alert_counter' = threads[t].tmp
    /\ threads' = [threads EXCEPT ![t].pc = "gen_format"]
    /\ UNCHANGED thresholds
    /\ UNCHANGED <<sgVars, bnVars, chVars, fnVars, cpVars, anVars, tpVars, rtVars, smVars, lgVars>>

(* ... and the store of the sum.                                           *)
GenWrite(t) ==
    /\ threads[t].pc = "gen_write"
    /\ alert_counter' = threads[t].tmp + 1
    /\ threads' = [threads EXCEPT ![t].pc = "gen_format"]
    /\ UNCHANGED thresholds
    /\ UNCHANGED <<sgVars, bnVars, chVars, fnVars, cpVars, anVars, tpVars, rtVars, smVars, lgVars>>

(* _generate_id's return: the f-string reads self._alert_counter again     *)
(* (after the datetime.now() and strftime calls); the Alert is appended.   *)
GenFormat(t) ==
    LET me == threads[t]
        alert == [id |-> alert_counter] @@ me.pending
    IN  /\ me.pc = "gen_format"
        /\ threads' = [threads EXCEPT ![t] =
                           [me EXCEPT !.pc = "eval", !.pos = me.pos + 1,
                                      !.alerts = Append(me.alerts, alert),
                                      !.pending = NoAlert]]
        /\ UNCHANGED <<thresholds, alert_counter>>
        /\ UNCHANGED <<sgVars, bnVars, chVars, fnVars, cpVars, anVars, tpVars, rtVars, smVars, lgVars>>

(* After the last rule: the sort by severity and the return.               *)
SortAndReturn(t) ==
    LET me == threads[t]
    IN  /\ me.pc = "eval"
        /\ me.pos > LastPos(me.data)
        /\ threads' = [threads EXCEPT ![t] =
                           [me EXCEPT !.pc = "done", !.alerts = SortBySeverity(me.alerts)]]
        /\ UNCHANGED <<thresholds, alert_counter>>
        /\ UNCHANGED <<sgVars, bnVars, chVars, fnVars, cpVars, anVars, tpVars, rtVars, smVars, lgVars>>

(* The caller takes the returned list (api_get_alerts) and the thread is   *)
(* free for the next request on the same engine.                           *)
ReturnAlerts(t) ==
    /\ threads[t].pc = "done"
    /\ alert_log' = Append(alert_log, [alerts |-> threads[t].alerts,
                                       counter |-> alert_counter])
    /\ threads' = [threads EXCEPT ![t] = IdleThread]
    /\ UNCHANGED <<thresholds, alert_counter>>
    /\ UNCHANGED <<sgVars, bnVars, chVars, fnVars, cpVars, anVars, tpVars, rtVars, smVars>>

AlertLogIdle == alert_log = <<>>

MaxAlertCalls == 3      \* at most this many check_metrics calls on one engine

-----------------------------------------------------------------------------
(* Inputs of check_metrics, drawn from bounded sets.                       *)

MaxChannels == 2        \* at most this many channels in one input
MaxCampaigns == 2       \* at most this many campaigns in one input

(* metrics dicts: no roas key, and roas = -0.50, 0, 0.01, 0.50, 1.00,      *)
(* 1.99, 2.00 (api_get_alerts rounds to 2 decimals).                       *)
SampleMetrics ==
    {[total_spend |-> 1000]}
    \cup {[total_spend |-> 1000, roas |-> Frac(r, 100)] :
            r \in {-50, 0, 1, 50, 100, 199, 200}}

(* channel ROI -5.0%, 49.9%, 50.0%, and a channel without roi key.         *)
SampleChannels ==
    { [name |-> "Email", roi |-> FInt(-5)],
      [name |-> "Paid Search", roi |-> Frac(499, 10)],
      [name |-> "Display", roi |-> FInt(50)],
      [name |-> "Direct"] }

SampleCampaigns ==
    { [name |-> "Spring", budget |-> 100, spent |-> 96, status |-> "active"],
      [name |-> "Summer", budget |-> 100, spent |-> 40, status |-> "active"],
      [name |-> "Winter", budget |-> 100, spent |-> 99, status |-> "paused"] }

SeqsUpTo(S, n) == UNION {[1..k -> S] : k \in 0..n}

AlertInputs ==
    {[metrics |-> m, channels |-> chs, campaigns |-> cs] :
        m \in SampleMetrics,
        chs \in SeqsUpTo(SampleChannels, MaxChannels),
        cs \in SeqsUpTo(SampleCampaigns, MaxCampaigns)}

(* Inputs of the two concurrent requests: no breach, one, two, three.      *)
ConcurrentInputs ==
    { [metrics |-> [roas |-> Frac(5, 2)], channels |-> <<>>, campaigns |-> <<>>],
      [metrics |-> [roas |-> Frac(1, 2)], channels |-> <<>>, campaigns |-> <<>>],
      [metrics |-> [roas |-> Frac(3, 2)],
       channels |-> <<[name |-> "Email", roi |-> FInt(-5)]>>, campaigns |-> <<>>],
      [metrics |-> [roas |-> Frac(1, 2)],
       channels |-> <<[name |-> "Email", roi |-> FInt(-5)]>>,
       campaigns |-> <<[name |-> "Summer", budget |-> 100, spent |-> 40,
                        status |-> "active"]>>] }

-----------------------------------------------------------------------------
(* Benchmark Engine: KPI scoring.                                          *)

KPI(id, name, benchmark, direction, category, unit) ==
    [kpi_id |-> id, name |-> name, benchmark_value |-> benchmark,
     direction |-> direction, category |-> category, unit |-> unit, weight |-> 1]

(* The catalog of create_marketing_benchmarks.                             *)
MarketingKpis == <<
    KPI("cac", "Customer Acquisition Cost", 50, "lower_is_better", "Acquisition", "$"),
    KPI("cpl", "Cost per Lead", 25, "lower_is_better", "Acquisition", "$"),
    KPI("conversion_rate", "Conversion Rate", 3, "higher_is_better", "Conversion", "%"),
    KPI("lead_to_customer", "Lead to Customer Rate", 20, "higher_is_better", "Conversion", "%"),
    KPI("email_open_rate", "Email Open Rate", 25, "higher_is_better", "Engagement", "%"),
    KPI("email_ctr", "Email Click-Through Rate", 3, "higher_is_better", "Engagement", "%"),
    KPI("social_engagement", "Social Engagement Rate", 2, "higher_is_better", "Engagement", "%"),
    KPI("customer_retention", "Customer Retention Rate", 85, "higher_is_better", "Retention", "%"),
    KPI("churn_rate", "Churn Rate", 5, "lower_is_better", "Retention", "%"),
    KPI("clv", "Customer Lifetime Value", 500, "higher_is_better", "Revenue", "$"),
    KPI("roas", "Return on Ad Spend", 400, "higher_is_better", "Revenue", "%"),
    KPI("marketing_roi", "Marketing ROI", 100, "higher_is_better", "Revenue", "%"),
    KPI("brand_awareness", "Brand Awareness", 30, "higher_is_better", "Brand", "%"),
    KPI("nps", "Net Promoter Score", 50, "higher_is_better", "Brand", "") >>

(* The catalog of create_digital_benchmarks.                               *)
DigitalKpis == <<
    KPI("website_traffic", "Monthly Website Traffic", 10000, "higher_is_better", "Acquisition", ""),
    KPI("bounce_rate", "Bounce Rate", 50, "lower_is_better", "Engagement", "%"),
    KPI("pages_per_session", "Pages per Session", 3, "higher_is_better", "Engagement", ""),
    KPI("session_duration", "Avg Session Duration", 180, "higher_is_better", "Engagement", "sec"),
    KPI("organic_traffic", "Organic Traffic %", 40, "higher_is_better", "Acquisition", "%"),
    KPI("paid_ctr", "Paid Ads CTR", 2, "higher_is_better", "Conversion", "%"),
    KPI("landing_conversion", "Landing Page Conversion", 5, "higher_is_better", "Conversion", "%"),
    KPI("cart_abandonment", "Cart Abandonment Rate", 70, "lower_is_better", "Conversion", "%") >>

(* sorted(RATING_THRESHOLDS.items(), reverse=True).                        *)
RATING_THRESHOLDS == <<
    [t |-> 90, r |-> "Excellent"], [t |-> 75, r |-> "Good"], [t |-> 60, r |-> "Fair"],
    [t |-> 40, r |-> "Poor"], [t |-> 0, r |-> "Critical"] >>

(* BenchmarkEngine._rate: the first threshold the score reaches, else      *)
(* "Critical".                                                             *)
RECURSIVE RateLoop(_, _)
RateLoop(i, score) ==
    IF i > Len(RATING_THRESHOLDS) THEN "Critical"
    ELSE IF FGe(score, FInt(RATING_THRESHOLDS[i].t)) THEN RATING_THRESHOLDS[i].r
    ELSE RateLoop(i + 1, score)

rate(score) == RateLoop(1, score)

(* str.capitalize() of the two direction words.                            *)
Capitalize(word) ==
    CASE word = "increase" -> "Increase" [] word = "decrease" -> "Decrease"

(* _score_kpi without the cap at 120.                                      *)
score_kpi_uncapped(kpi, actual) ==
    LET benchmark == kpi.benchmark_value
        gap == actual - benchmark
        gap_pct == IF benchmark # 0 THEN Frac(gap * 100, benchmark) ELSE FInt(0)
        score == IF kpi.direction = "higher_is_better"
                 THEN IF benchmark > 0 THEN Frac(actual * 100, benchmark) ELSE FInt(100)
                 ELSE IF actual > 0 THEN Frac(benchmark * 100, actual) ELSE FInt(100)
        rating == rate(score)
        direction == IF kpi.direction = "higher_is_better" THEN "increase" ELSE "decrease"
        rec == IF rating \in {"Excellent", "Good"}
               THEN "Maintain " \o kpi.name
               ELSE Capitalize(direction) \o " " \o kpi.name
    IN  [kpi_id |-> kpi.kpi_id, kpi_name |-> kpi.name, actual_value |-> actual,
         benchmark_value |-> benchmark, score |-> score, gap |-> gap,
         gap_percent |-> gap_pct, rating |-> rating, recommendation |-> rec]

(* BenchmarkEngine._score_kpi.                                             *)
score_kpi(kpi, actual) ==
    LET benchmark == kpi.benchmark_value
        gap == actual - benchmark
        gap_pct == IF benchmark # 0 THEN Frac(gap * 100, benchmark) ELSE FInt(0)
        score == IF kpi.direction = "higher_is_better"
                 THEN IF benchmark > 0
                      THEN FMin(FInt(120), Frac(actual * 100, benchmark))
                      ELSE FInt(100)
                 ELSE IF actual > 0
                      THEN FMin(FInt(120), Frac(benchmark * 100, actual))
                      ELSE FInt(100)
        rating == rate(score)
        direction == IF kpi.direction = "higher_is_better" THEN "increase" ELSE "decrease"
        rec == IF rating \in {"Excellent", "Good"}
               THEN "Maintain " \o kpi.name
               ELSE Capitalize(direction) \o " " \o kpi.name
    IN  [kpi_id |-> kpi.kpi_id, kpi_name |-> kpi.name, actual_value |-> actual,
         benchmark_value |-> benchmark, score |-> score, gap |-> gap,
         gap_percent |-> gap_pct, rating |-> rating, recommendation |-> rec]

(* Actual values: negative, zero, and values below, at and above each      *)
(* benchmark's 120% cap.                                                   *)
SampleActuals == {-20, -1, 0, 1, 2, 3, 4, 25, 40, 45, 50, 61, 100, 125, 600, 12001}

(* KPIs of an engine built by a caller, with a benchmark of zero.          *)
CustomKpis == <<
    KPI("referrals", "Referrals", 0, "higher_is_better", "Acquisition", ""),
    KPI("complaints", "Complaints", 0, "lower_is_better", "Retention", "") >>

NoKpiCall == [kpi |-> MarketingKpis[1], actual |-> 0]

NoKpiScore == score_kpi(NoKpiCall.kpi, NoKpiCall.actual)

BenchIdle ==
    /\ kpi_call = NoKpiCall
    /\ kpi_score = NoKpiScore
    /\ bn_pc = "idle"

InitBench ==
    /\ \E k \in Range(MarketingKpis) \cup Range(DigitalKpis) \cup Range(CustomKpis),
          a \in SampleActuals :
            kpi_call = [kpi |-> k, actual |-> a]
    /\ kpi_score = NoKpiScore
    /\ bn_pc = "ready"

ScoreKpi ==
    /\ bn_pc = "ready"
    /\ kpi_score' = score_kpi(kpi_call.kpi, kpi_call.actual)
    /\ bn_pc' = "done"
    /\ UNCHANGED kpi_call
    /\ UNCHANGED <<sgVars, alVars, chVars, fnVars, cpVars, anVars, tpVars, rtVars, smVars, lgVars>>

-----------------------------------------------------------------------------
(* Channel Mix Analyzer.                                                   *)

Bench(ctr, conversion_rate, cpa) ==
    [ctr |-> ctr, conversion_rate |-> conversion_rate, cpa |-> cpa]

(* CHANNEL_BENCHMARKS, keyed by ChannelType value.                         *)
CHANNEL_BENCHMARKS ==
    ("Organic Search" :> Bench(FInt(3), FInt(3), FInt(30)))
    @@ ("Paid Search" :> Bench(FInt(2), Frac(5, 2), FInt(50)))
    @@ ("Social (Organic)" :> Bench(FInt(1), Frac(3, 2), FInt(0)))
    @@ ("Social (Paid)" :> Bench(Frac(3, 2), FInt(1), FInt(40)))
    @@ ("Email" :> Bench(Frac(7, 2), FInt(4), FInt(10)))
    @@ ("Display Ads" :> Bench(Frac(1, 2), Frac(1, 2), FInt(60)))
    @@ ("Affiliate" :> Bench(FInt(1), FInt(2), FInt(35)))
    @@ ("Referral" :> Bench(Frac(5, 2), Frac(7, 2), FInt(20)))
    @@ ("Direct" :> Bench(FInt(0), FInt(5), FInt(0)))
    @@ ("Video" :> Bench(Frac(6, 5), FInt(1), FInt(45)))
    @@ ("Content Marketing" :> Bench(FInt(2), Frac(5, 2), FInt(25)))

(* ChannelAnalyzer.__init__'s default target_roas.                         *)
target_roas == 400

Zero == FInt(0)

(* An efficiency that divides the sum by the weights of the sub-scores     *)
(* that apply.                                                             *)
calculate_efficiency_renormalized(channel, ctr, conversion_rate, cpa, roas) ==
    LET benchmarks == Get(CHANNEL_BENCHMARKS, channel, EmptyDict)
        b_ctr == Get(benchmarks, "ctr", Zero)
        b_conv == Get(benchmarks, "conversion_rate", Zero)
        b_cpa == Get(benchmarks, "cpa", Zero)
        w1 == IF FGt(b_ctr, Zero) THEN Frac(1, 5) ELSE Zero
        w2 == IF FGt(b_conv, Zero) THEN Frac(3, 10) ELSE Zero
        w3 == IF FGt(b_cpa, Zero) /\ FGt(cpa, Zero) THEN Frac(1, 4) ELSE Zero
        s1 == IF FGt(b_ctr, Zero)
              THEN FMul(FMin(FInt(100), FMul(FDiv(ctr, b_ctr), FInt(100))), w1) ELSE Zero
        s2 == IF FGt(b_conv, Zero)
              THEN FMul(FMin(FInt(100), FMul(FDiv(conversion_rate, b_conv), FInt(100))), w2)
              ELSE Zero
        s3 == IF FGt(b_cpa, Zero) /\ FGt(cpa, Zero)
              THEN FMul(FMin(FInt(100), FMul(FDiv(b_cpa, cpa), FInt(100))), w3) ELSE Zero
        s4 == FMul(FMin(FInt(100), FMul(FDiv(roas, FInt(target_roas)), FInt(100))), Frac(1, 4))
    IN  FDiv(FAdd(FAdd(s1, s2), FAdd(s3, s4)), FAdd(FAdd(w1, w2), FAdd(w3, Frac(1, 4))))

(* _calculate_efficiency: the weighted sub-scores that apply, summed.      *)
calculate_efficiency(channel, ctr, conversion_rate, cpa, roas) ==
    LET benchmarks == Get(CHANNEL_BENCHMARKS, channel, EmptyDict)
        b_ctr == Get(benchmarks, "ctr", Zero)
        b_conv == Get(benchmarks, "conversion_rate", Zero)
        b_cpa == Get(benchmarks, "cpa", Zero)
        s1 == IF FGt(b_ctr, Zero)
              THEN <<FMul(FMin(FInt(100), FMul(FDiv(ctr, b_ctr), FInt(100))), Frac(1, 5))>>
              ELSE <<>>
        s2 == IF FGt(b_conv, Zero)
              THEN <<FMul(FMin(FInt(100), FMul(FDiv(conversion_rate, b_conv), FInt(100))),
                          Frac(3, 10))>>
              ELSE <<>>
        s3 == IF FGt(b_cpa, Zero) /\ FGt(cpa, Zero)
              THEN <<FMul(FMin(FInt(100), FMul(FDiv(b_cpa, cpa), FInt(100))), Frac(1, 4))>>
              ELSE <<>>
        s4 == <<FMul(FMin(FInt(100), FMul(FDiv(roas, FInt(target_roas)), FInt(100))),
                     Frac(1, 4))>>
        scores == s1 \o s2 \o s3 \o s4
    IN  IF Len(scores) > 0 THEN FSum(scores) ELSE FInt(50)

(* ChannelAnalyzer._get_rating, over the same threshold table.             *)
RECURSIVE GetRatingLoop(_, _)
GetRatingLoop(i, score) ==
    IF i > Len(RATING_THRESHOLDS) THEN "Critical"
    ELSE IF FGe(score, FInt(RATING_THRESHOLDS[i].t)) THEN RATING_THRESHOLDS[i].r
    ELSE GetRatingLoop(i + 1, score)

get_rating(score) == GetRatingLoop(1, score)

(* _generate_channel_recommendations.                                      *)
generate_channel_recommendations(channel, ctr, conversion_rate, cpa, roas, score) ==
    LET benchmarks == Get(CHANNEL_BENCHMARKS, channel, EmptyDict)
        b_ctr == Get(benchmarks, "ctr", Zero)
        b_conv == Get(benchmarks, "conversion_rate", Zero)
        b_cpa == Get(benchmarks, "cpa", Zero)
        r1 == IF FLt(ctr, FMul(b_ctr, Frac(4, 5)))
              THEN <<"Improve " \o channel \o " CTR - test new ad creative and targeting">>
              ELSE <<>>
        r2 == IF FLt(conversion_rate, FMul(b_conv, Frac(4, 5)))
              THEN <<"Optimize " \o channel \o " landing pages for better conversion">>
              ELSE <<>>
        r3 == IF FGt(cpa, FMul(b_cpa, Frac(6, 5))) /\ FGt(b_cpa, Zero)
              THEN <<"Reduce " \o channel \o " CPA through audience refinement">>
              ELSE <<>>
        r4 == IF FLt(roas, FMul(FInt(target_roas), Frac(4, 5)))
              THEN <<"Review " \o channel \o " targeting and bid strategy">>
              ELSE <<>>
        r5 == IF FGe(score, FInt(80))
              THEN <<"Consider increasing " \o channel \o " budget - strong performer">>
              ELSE <<>>
    IN  Prefix(r1 \o r2 \o r3 \o r4 \o r5, 3)

(* analyze_channel with roas falling back to 100 when nothing was spent.   *)
analyze_channel_roas_100(channel, metrics, total_revenue) ==
    LET ctr == IF metrics.impressions > 0
               THEN Frac(metrics.clicks * 100, metrics.impressions) ELSE Zero
        conversion_rate == IF metrics.clicks > 0
                           THEN Frac(metrics.conversions * 100, metrics.clicks) ELSE Zero
        cpc == IF metrics.clicks > 0 THEN Frac(metrics.spend, metrics.clicks) ELSE Zero
        cpa == IF metrics.conversions > 0
               THEN Frac(metrics.spend, metrics.conversions) ELSE Zero
        roas == IF metrics.spend > 0
                THEN Frac(metrics.revenue * 100, metrics.spend) ELSE FInt(100)
        contribution == IF total_revenue > 0
                        THEN Frac(metrics.revenue * 100, total_revenue) ELSE Zero
        efficiency_score == calculate_efficiency(channel, ctr, conversion_rate, cpa, roas)
    IN  [channel |-> channel, metrics |-> metrics, ctr |-> ctr,
         conversion_rate |-> conversion_rate, cpc |-> cpc, cpa |-> cpa, roas |-> roas,
         contribution_percent |-> contribution, efficiency_score |-> efficiency_score,
         rating |-> get_rating(efficiency_score),
         recommendations |-> generate_channel_recommendations(
                                 channel, ctr, conversion_rate, cpa, roas, efficiency_score)]

(* analyze_channel.                                                        *)
analyze_channel(channel, metrics, total_revenue) ==
    LET ctr == IF metrics.impressions > 0
               THEN Frac(metrics.clicks * 100, metrics.impressions) ELSE Zero
        conversion_rate == IF metrics.clicks > 0
                           THEN Frac(metrics.conversions * 100, metrics.clicks) ELSE Zero
        cpc == IF metrics.clicks > 0 THEN Frac(metrics.spend, metrics.clicks) ELSE Zero
        cpa == IF metrics.conversions > 0
               THEN Frac(metrics.spend, metrics.conversions) ELSE Zero
        roas == IF metrics.spend > 0
                THEN Frac(metrics.revenue * 100, metrics.spend) ELSE Zero
        contribution == IF total_revenue > 0
                        THEN Frac(metrics.revenue * 100, total_revenue) ELSE Zero
        efficiency_score == calculate_efficiency(channel, ctr, conversion_rate, cpa, roas)
    IN  [channel |-> channel, metrics |-> metrics, ctr |-> ctr,
         conversion_rate |-> conversion_rate, cpc |-> cpc, cpa |-> cpa, roas |-> roas,
         contribution_percent |-> contribution, efficiency_score |-> efficiency_score,
         rating |-> get_rating(efficiency_score),
         recommendations |-> generate_channel_recommendations(
                                 channel, ctr, conversion_rate, cpa, roas, efficiency_score)]

(* performances.sort(key=efficiency_score, reverse=True): stable.          *)
RECURSIVE InsertByEfficiency(_, _)
InsertByEfficiency(sorted, p) ==
    IF Len(sorted) = 0 THEN <<p>>
    ELSE IF FGe(Head(sorted).efficiency_score, p.efficiency_score)
         THEN <<Head(sorted)>> \o InsertByEfficiency(Tail(sorted), p)
         ELSE <<p>> \o sorted

RECURSIVE SortByEfficiency(_)
SortByEfficiency(s) ==
    IF Len(s) = 0 THEN <<>>
    ELSE InsertByEfficiency(SortByEfficiency(SubSeq(s, 1, Len(s) - 1)), s[Len(s)])

(* spend / total_spend * 100, or 0 when nothing was spent.                 *)
CurrentShare(p, total_spend) ==
    IF total_spend > 0 THEN Frac(p.metrics.spend * 100, total_spend) ELSE Zero

(* The shift without the 40% cap on the recommended share.                 *)
BudgetShiftUncapped(p, total_spend) ==
    LET current_share == CurrentShare(p, total_spend)
    IN  IF FGe(p.efficiency_score, FInt(80))
        THEN FSub(FMul(current_share, Frac(13, 10)), current_share)
        ELSE IF FGe(p.efficiency_score, FInt(60)) THEN Zero
        ELSE IF FGe(p.efficiency_score, FInt(40))
        THEN FMul(FInt(-1), FMul(current_share, Frac(1, 5)))
        ELSE FMul(FInt(-1), FMul(current_share, Frac(2, 5)))

(* The shift _calculate_budget_shifts computes for one channel.            *)
BudgetShift(p, total_spend) ==
    LET current_share == CurrentShare(p, total_spend)
    IN  IF FGe(p.efficiency_score, FInt(80))
        THEN FSub(FMin(FMul(current_share, Frac(13, 10)), FInt(40)), current_share)
        ELSE IF FGe(p.efficiency_score, FInt(60)) THEN Zero
        ELSE IF FGe(p.efficiency_score, FInt(40))
        THEN FMul(FInt(-1), FMul(current_share, Frac(1, 5)))
        ELSE FMul(FInt(-1), FMul(current_share, Frac(2, 5)))

(* Only significant shifts are reported.                                   *)
Significant(shift) == FGt(FAbs(shift), FInt(2))

(* _calculate_budget_shifts: the dict channel value -> shift.              *)
calculate_budget_shifts(performances, total_spend) ==
    LET reported == {i \in 1..Len(performances) :
                        Significant(BudgetShift(performances[i], total_spend))}
    IN  [c \in {performances[i].channel : i \in reported} |->
            LET i == CHOOSE j \in reported : performances[j].channel = c
            IN  BudgetShift(performances[i], total_spend)]

(* _identify_opportunities, as (kind, channel) pairs: the wording of the   *)
(* two messages is not modelled.                                           *)
identify_opportunities(performances, total_spend) ==
    LET scale == SelectSeq(performances, LAMBDA p :
                    /\ FGt(p.efficiency_score, FInt(75))
                    /\ FLt(CurrentShare(p, total_spend), FInt(15)))
        reduce == SelectSeq(performances, LAMBDA p :
                    /\ FLt(p.efficiency_score, FInt(50))
                    /\ FGt(CurrentShare(p, total_spend), FInt(20)))
    IN  Prefix([i \in 1..Len(scale) |-> <<"Scale", scale[i].channel>>]
               \o [i \in 1..Len(reduce) |-> <<"Reduce", reduce[i].channel>>], 5)

RECURSIVE SumField(_, _)
SumField(data, f) ==
    IF Len(data) = 0 THEN 0
    ELSE SumField(SubSeq(data, 1, Len(data) - 1), f) + data[Len(data)].metrics[f]

(* analyze_channel_mix.                                                    *)
analyze_channel_mix(data) ==
    LET total_spend == SumField(data, "spend")
        total_revenue == SumField(data, "revenue")
        total_conversions == SumField(data, "conversions")
        overall_roas == IF total_spend > 0 THEN Frac(total_revenue * 100, total_spend)
                        ELSE Zero
        performances == SortByEfficiency(
            [i \in 1..Len(data) |->
                analyze_channel(data[i].channel, data[i].metrics, total_revenue)])
        top3 == Prefix(performances, 3)
        top == SelectSeq(top3, LAMBDA p : FGe(p.efficiency_score, FInt(70)))
        under == SelectSeq(performances, LAMBDA p : FLt(p.efficiency_score, FInt(50)))
    IN  [total_spend |-> total_spend, total_revenue |-> total_revenue,
         total_conversions |-> total_conversions, overall_roas |-> overall_roas,
         channel_performances |-> performances,
         top_performers |-> [i \in 1..Len(top) |-> top[i].channel],
         underperformers |-> [i \in 1..Len(under) |-> under[i].channel],
         optimization_opportunities |-> identify_opportunities(performances, total_spend),
         recommended_budget_shifts |-> calculate_budget_shifts(performances, total_spend)]

(* (impressions, clicks, conversions, spend, revenue) samples: for Paid    *)
(* Search the first seven score 85, 88.9, 22.5, 81.25, 45, 70.1 and 50;    *)
(* the last four have no spend.                                            *)
CM(impressions, clicks, conversions, spend, revenue) ==
    [impressions |-> impressions, clicks |-> clicks, conversions |-> conversions,
     spend |-> spend, revenue |-> revenue, leads |-> 0, new_customers |-> 0]

SampleChannelMetrics ==
    { CM(1000, 20, 1, 10, 16),
      CM(1000, 20, 1, 90, 360),
      CM(1000, 10, 0, 45, 90),
      CM(1000, 20, 1, 45, 45),
      CM(1000, 20, 0, 30, 120),
      CM(1000, 20, 1, 90, 90),
      CM(1000, 20, 1, 0, 0),
      CM(1000, 0, 0, 0, 0),
      CM(0, 0, 0, 0, 50),
      CM(1000, 20, 0, 0, 10) }

(* The channel types of the sampled mixes, in dict order.                  *)
SampleChannelTypes == <<"Paid Search", "Email", "Direct">>

(* Every mix over the sampled types: each type absent or with one of the   *)
(* sampled metrics.                                                        *)
RECURSIVE MixesFrom(_)
MixesFrom(i) ==
    IF i > Len(SampleChannelTypes) THEN {<<>>}
    ELSE LET rest == MixesFrom(i + 1)
         IN  rest \cup {<<[channel |-> SampleChannelTypes[i], metrics |-> m]>> \o r :
                            m \in SampleChannelMetrics, r \in rest}

(* Mixes of the channels whose benchmarks hold a zero, next to one whose   *)
(* benchmarks are all positive; the added metrics reach every cap (ctr     *)
(* 10%, conversion rate 10%, cpa 1, roas 1000%).                           *)
ZeroBenchmarkChannelTypes == <<"Direct", "Social (Organic)", "Paid Search">>

ZeroBenchmarkChannelMetrics == SampleChannelMetrics \cup {CM(1000, 100, 10, 10, 100)}

RECURSIVE ZeroBenchmarkMixesFrom(_)
ZeroBenchmarkMixesFrom(i) ==
    IF i > Len(ZeroBenchmarkChannelTypes) THEN {<<>>}
    ELSE LET rest == ZeroBenchmarkMixesFrom(i + 1)
         IN  rest \cup {<<[channel |-> ZeroBenchmarkChannelTypes[i], metrics |-> m]>> \o r :
                            m \in ZeroBenchmarkChannelMetrics, r \in rest}

NoMix == analyze_channel_mix(<<>>)

ChannelIdle ==
    /\ channel_data = <<>>
    /\ mix = NoMix
    /\ ch_pc = "idle"

InitChannel ==
    /\ channel_data \in MixesFrom(1)
    /\ mix = NoMix
    /\ ch_pc = "ready"

InitChannelZeroBenchmarks ==
    /\ channel_data \in ZeroBenchmarkMixesFrom(1)
    /\ mix = NoMix
    /\ ch_pc = "ready"

AnalyzeChannelMix ==
    /\ ch_pc = "ready"
    /\ mix' = analyze_channel_mix(channel_data)
    /\ ch_pc' = "done"
    /\ UNCHANGED channel_data
    /\ UNCHANGED <<sgVars, alVars, bnVars, fnVars, cpVars, anVars, tpVars, rtVars, smVars, lgVars>>

-----------------------------------------------------------------------------
(* Funnel Optimizer: the per-stage loop of analyze_funnel.                 *)

(* FunnelOptimizer.__init__'s default stages.                              *)
DefaultStages == <<"Awareness", "Interest", "Consideration", "Intent", "Purchase">>

(* The loop with the next stage's entry base taken from this stage's      *)
(* visitors instead of its conversions.                                    *)
RECURSIVE StageLoopFromVisitors(_, _, _, _, _)
StageLoopFromVisitors(i, stages, stage_data, previous_visitors, stage_metrics) ==
    IF i > Len(stages) THEN stage_metrics
    ELSE LET stage == stages[i]
             data == Get(stage_data, stage, EmptyDict)
             visitors == Get(data, "visitors", 0)
             conversions == Get(data, "conversions", 0)
             time_in_stage == Get(data, "avg_time", 0)
             cost == Get(data, "cost", 0)
             conversion_rate == IF visitors > 0 THEN Frac(conversions * 100, visitors)
                                ELSE Zero
             drop_off == IF Len(previous_visitors) > 0 /\ previous_visitors[1] > 0
                         THEN FSub(FInt(100), Frac(visitors * 100, previous_visitors[1]))
                         ELSE FSub(FInt(100), conversion_rate)
             metrics == [stage |-> stage, visitors |-> visitors,
                         conversions |-> conversions,
                         conversion_rate |-> conversion_rate,
                         drop_off_rate |-> drop_off,
                         avg_time_in_stage |-> time_in_stage,
                         cost_per_stage |-> cost]
         IN  StageLoopFromVisitors(i + 1, stages, stage_data, <<visitors>>,
                                   Append(stage_metrics, metrics))

(* The loop over self.stages.  previous_visitors is None (<<>>) before the *)
(* first stage and <<conversions>> of the stage before afterwards.         *)
RECURSIVE StageLoop(_, _, _, _, _)
StageLoop(i, stages, stage_data, previous_visitors, stage_metrics) ==
    IF i > Len(stages) THEN stage_metrics
    ELSE LET stage == stages[i]
             data == Get(stage_data, stage, EmptyDict)
             visitors == Get(data, "visitors", 0)
             conversions == Get(data, "conversions", 0)
             time_in_stage == Get(data, "avg_time", 0)
             cost == Get(data, "cost", 0)
             conversion_rate == IF visitors > 0 THEN Frac(conversions * 100, visitors)
                                ELSE Zero
             drop_off == IF Len(previous_visitors) > 0 /\ previous_visitors[1] > 0
                         THEN FSub(FInt(100), Frac(visitors * 100, previous_visitors[1]))
                         ELSE FSub(FInt(100), conversion_rate)
             metrics == [stage |-> stage, visitors |-> visitors,
                         conversions |-> conversions,
                         conversion_rate |-> conversion_rate,
                         drop_off_rate |-> drop_off,
                         avg_time_in_stage |-> time_in_stage,
                         cost_per_stage |-> cost]
         IN  StageLoop(i + 1, stages, stage_data, <<conversions>>,
                       Append(stage_metrics, metrics))

(* analyze_funnel: the stage metrics of the returned FunnelAnalysis.       *)
analyze_funnel_stages(stages, stage_data) == StageLoop(1, stages, stage_data, <<>>, <<>>)

MaxStages == 3      \* the optimizer is configured with at most this many stages

(* Per-stage inputs: 1000 visitors / 300 conversions, and followers that   *)
(* enter with fewer, as many and more visitors than 300, with and without  *)
(* conversions; an empty stage.                                            *)
SampleStageData ==
    { [visitors |-> 1000, conversions |-> 300],
      [visitors |-> 300, conversions |-> 150],
      [visitors |-> 240, conversions |-> 0],
      [visitors |-> 400, conversions |-> 100],
      [visitors |-> 0, conversions |-> 0] }

(* Every stage_data over the first n stages: a stage is absent or has one  *)
(* of the sampled inputs.                                                  *)
RECURSIVE StageDataFrom(_, _)
StageDataFrom(i, n) ==
    IF i > n THEN {EmptyDict}
    ELSE LET rest == StageDataFrom(i + 1, n)
         IN  rest \cup {(DefaultStages[i] :> d) @@ r : d \in SampleStageData, r \in rest}

FunnelIdle ==
    /\ funnel_call = [stages |-> <<>>, stage_data |-> EmptyDict]
    /\ funnel = <<>>
    /\ fn_pc = "idle"

InitFunnel ==
    /\ \E n \in 1..Min(MaxStages, Len(DefaultStages)) :
          \E d \in StageDataFrom(1, n) :
             funnel_call = [stages |-> SubSeq(DefaultStages, 1, n), stage_data |-> d]
    /\ funnel = <<>>
    /\ fn_pc = "ready"

AnalyzeFunnel ==
    /\ fn_pc = "ready"
    /\ funnel' = analyze_funnel_stages(funnel_call.stages, funnel_call.stage_data)
    /\ fn_pc' = "done"
    /\ UNCHANGED funnel_call
    /\ UNCHANGED <<sgVars, alVars, bnVars, chVars, cpVars, anVars, tpVars, rtVars, smVars, lgVars>>

-----------------------------------------------------------------------------
(* Campaign Scoring Engine.  A ScoringComponent is a record; a raw value   *)
(* is <<v>>, or <<>> for a component the values dict does not hold.        *)

FMax(a, b) == IF FGe(a, b) THEN a ELSE b

ScoringComponent(component_id, name, weight, higher_is_better, min_value, max_value) ==
    [component_id |-> component_id, name |-> name, weight |-> weight,
     higher_is_better |-> higher_is_better, min_value |-> min_value, max_value |-> max_value]

(* create_campaign_performance_engine.                                     *)
create_campaign_performance_engine == <<
    ScoringComponent("conversion_rate", "Conversion Rate", 25, TRUE, 0, 10),
    ScoringComponent("click_through_rate", "Click-Through Rate", 20, TRUE, 0, 5),
    ScoringComponent("cost_per_acquisition", "Cost per Acquisition", 20, FALSE, 0, 100),
    ScoringComponent("return_on_ad_spend", "Return on Ad Spend", 20, TRUE, 0, 500),
    ScoringComponent("engagement_rate", "Engagement Rate", 15, TRUE, 0, 10) >>

(* CampaignScoringEngine.__init__: total_weight.                           *)
RECURSIVE total_weight(_)
total_weight(components) ==
    IF Len(components) = 0 THEN 0
    ELSE total_weight(SubSeq(components, 1, Len(components) - 1))
            + components[Len(components)].weight

(* _normalize without the mirrored quotient of a lower-is-better           *)
(* component.                                                              *)
normalize_unmirrored(value, comp) ==
    LET range_size == comp.max_value - comp.min_value
    IN  IF range_size = 0 THEN FInt(50)
        ELSE FMax(FInt(0), FMin(FInt(100), Frac((value - comp.min_value) * 100, range_size)))

(* CampaignScoringEngine._normalize.                                       *)
normalize(value, comp) ==
    LET range_size == comp.max_value - comp.min_value
    IN  IF range_size = 0 THEN FInt(50)
        ELSE IF comp.higher_is_better
        THEN FMax(FInt(0), FMin(FInt(100), Frac((value - comp.min_value) * 100, range_size)))
        ELSE FMax(FInt(0), FMin(FInt(100), Frac((comp.max_value - value) * 100, range_size)))

(* sorted(CampaignScoringEngine.RATING_THRESHOLDS.items(), reverse=True).  *)
CAMPAIGN_RATING_THRESHOLDS == <<
    [t |-> 90, r |-> "Excellent"], [t |-> 75, r |-> "Good"], [t |-> 60, r |-> "Fair"],
    [t |-> 40, r |-> "Poor"], [t |-> 0, r |-> "Critical"] >>

(* CampaignScoringEngine._rate.                                            *)
RECURSIVE CampaignRateLoop(_, _)
CampaignRateLoop(i, score) ==
    IF i > Len(CAMPAIGN_RATING_THRESHOLDS) THEN "Critical"
    ELSE IF FGe(score, FInt(CAMPAIGN_RATING_THRESHOLDS[i].t))
    THEN CAMPAIGN_RATING_THRESHOLDS[i].r
    ELSE CampaignRateLoop(i + 1, score)

campaign_rate(score) == CampaignRateLoop(1, score)

(* The loop of CampaignScoringEngine.score over the components in dict     *)
(* order: a component without a value is skipped.                          *)
RECURSIVE ScoreLoop(_, _, _, _)
ScoreLoop(i, components, values, scores) ==
    IF i > Len(components) THEN scores
    ELSE
        LET comp == components[i]
            raw == Get(values, comp.component_id, <<>>)
        IN  IF Len(raw) = 0 THEN ScoreLoop(i + 1, components, values, scores)
            ELSE
                LET normalized == normalize(raw[1], comp)
                    weighted == FMul(normalized, Frac(comp.weight, total_weight(components)))
                IN  ScoreLoop(i + 1, components, values, Append(scores,
                        [component_id |-> comp.component_id, name |-> comp.name,
                         raw_value |-> raw[1], normalized_score |-> normalized,
                         weighted_score |-> FMul(weighted, FInt(100)), weight |-> comp.weight,
                         rating |-> campaign_rate(normalized)]))

(* CampaignScoringEngine._determine_status.                                *)
(* A status ladder whose cut points are exclusive.                         *)
determine_status_exclusive(score) ==
    IF FGt(score, FInt(90)) THEN "Excellent"
    ELSE IF FGt(score, FInt(75)) THEN "Good"
    ELSE IF FGt(score, FInt(60)) THEN "Fair"
    ELSE IF FGt(score, FInt(40)) THEN "Poor"
    ELSE "Critical"

determine_status(score) ==
    IF FGe(score, FInt(90)) THEN "Excellent"
    ELSE IF FGe(score, FInt(75)) THEN "Good"
    ELSE IF FGe(score, FInt(60)) THEN "Fair"
    ELSE IF FGe(score, FInt(40)) THEN "Poor"
    ELSE "Critical"

(* sorted(component_scores, key=normalized_score, reverse=True): stable.   *)
RECURSIVE InsertByNormalized(_, _)
InsertByNormalized(sorted, c) ==
    IF Len(sorted) = 0 THEN <<c>>
    ELSE IF FGe(Head(sorted).normalized_score, c.normalized_score)
         THEN <<Head(sorted)>> \o InsertByNormalized(Tail(sorted), c)
         ELSE <<c>> \o sorted

RECURSIVE SortByNormalized(_)
SortByNormalized(s) ==
    IF Len(s) = 0 THEN <<>>
    ELSE InsertByNormalized(SortByNormalized(SubSeq(s, 1, Len(s) - 1)), s[Len(s)])

RECURSIVE MapName(_)
MapName(s) == IF Len(s) = 0 THEN <<>> ELSE <<Head(s).name>> \o MapName(Tail(s))

RECURSIVE MapImprove(_)
MapImprove(s) ==
    IF Len(s) = 0 THEN <<>>
    ELSE <<"Improve " \o Head(s).name \o " performance">> \o MapImprove(Tail(s))

(* CampaignScoringEngine._generate_recommendations.                        *)
generate_recommendations(status, scores) ==
    LET weak == SelectSeq(scores, LAMBDA c : FLt(c.normalized_score, FInt(60)))
        recs == MapImprove(Prefix(weak, 3))
        with_status ==
            IF status = "Critical"
            THEN <<"Consider pausing campaign for optimization">> \o recs
            ELSE IF status = "Excellent"
            THEN Append(recs, "Scale successful tactics to other campaigns")
            ELSE recs
    IN  Prefix(with_status, 5)

(* CampaignScoringEngine.score after the component loop.                   *)
score_campaign(components, scores) ==
    LET total_weighted == FSum([i \in 1..Len(scores) |->
                                 FDiv(scores[i].weighted_score, FInt(100))])
        total_weight_used == FSum([i \in 1..Len(scores) |->
                                    Frac(scores[i].weight, total_weight(components))])
        overall == IF FGt(total_weight_used, FInt(0))
                   THEN FMul(FDiv(total_weighted, total_weight_used), FInt(100))
                   ELSE FInt(0)
        status == determine_status(overall)
        sorted_scores == SortByNormalized(scores)
    IN  [overall_score |-> overall, status |-> status,
         strengths |-> MapName(SelectSeq(Prefix(sorted_scores, 3),
                                LAMBDA c : FGe(c.normalized_score, FInt(70)))),
         improvements |-> MapName(SelectSeq(Suffix(sorted_scores, 3),
                                LAMBDA c : FLt(c.normalized_score, FInt(60)))),
         recommendations |-> generate_recommendations(status, scores)]

NoCampaignScore ==
    [overall_score |-> FInt(0), status |-> "Critical", strengths |-> <<>>,
     improvements |-> <<>>, recommendations |-> <<>>]

(* Engines: the campaign performance engine, and one whose components have *)
(* a single-point range (either direction) or a range given upside down.   *)
FlatEngine == <<
    ScoringComponent("flat_up", "Flat Up", 40, TRUE, 5, 5),
    ScoringComponent("flat_down", "Flat Down", 40, FALSE, 0, 0),
    ScoringComponent("inverted", "Inverted", 20, TRUE, 100, 0) >>

SampleEngines == {create_campaign_performance_engine, FlatEngine}

(* Raw values of a component: none, below the range, one and four fifths   *)
(* into it, above it.                                                      *)
SampleValues(comp) ==
    LET range_size == comp.max_value - comp.min_value
    IN  {<<>>, <<comp.min_value - 1>>, <<comp.min_value + range_size \div 5>>,
         <<comp.min_value + (4 * range_size) \div 5>>, <<comp.max_value + 1>>}

RECURSIVE ValuesFrom(_, _)
ValuesFrom(i, components) ==
    IF i > Len(components) THEN {EmptyDict}
    ELSE {[k \in DOMAIN rest \cup {components[i].component_id} |->
              IF k = components[i].component_id THEN v ELSE rest[k]] :
            v \in SampleValues(components[i]), rest \in ValuesFrom(i + 1, components)}

CampaignIdle ==
    /\ campaign_call = [components |-> <<>>, values |-> EmptyDict]
    /\ component_scores = <<>>
    /\ campaign_score = NoCampaignScore
    /\ cp_pc = "idle"

InitCampaign ==
    /\ \E components \in SampleEngines :
          \E values \in ValuesFrom(1, components) :
             campaign_call = [components |-> components, values |-> values]
    /\ component_scores = <<>>
    /\ campaign_score = NoCampaignScore
    /\ cp_pc = "ready"

Score ==
    /\ cp_pc = "ready"
    /\ component_scores' = ScoreLoop(1, campaign_call.components, campaign_call.values, <<>>)
    /\ campaign_score' = score_campaign(campaign_call.components, component_scores')
    /\ cp_pc' = "done"
    /\ UNCHANGED campaign_call
    /\ UNCHANGED <<sgVars, alVars, bnVars, chVars, fnVars, anVars, tpVars, rtVars, smVars, lgVars>>

-----------------------------------------------------------------------------
(* Benchmark Engine: analyze.  category_totals and category_scores are     *)
(* dicts in insertion order, modelled as sequences of entries.             *)

(* sorted(GRADE_THRESHOLDS.items(), reverse=True).                         *)
GRADE_THRESHOLDS == <<
    [t |-> 90, g |-> "A"], [t |-> 80, g |-> "B"], [t |-> 70, g |-> "C"],
    [t |-> 60, g |-> "D"], [t |-> 0, g |-> "F"] >>

(* BenchmarkEngine._grade.                                                 *)
RECURSIVE GradeLoop(_, _)
GradeLoop(i, score) ==
    IF i > Len(GRADE_THRESHOLDS) THEN "F"
    ELSE IF FGe(score, FInt(GRADE_THRESHOLDS[i].t)) THEN GRADE_THRESHOLDS[i].g
    ELSE GradeLoop(i + 1, score)

grade(score) == GradeLoop(1, score)

(* category_totals[cat].append(score), creating the entry when missing.    *)
AppendToCategory(category_totals, cat, score) ==
    IF \E j \in 1..Len(category_totals) : category_totals[j].cat = cat
    THEN [j \in 1..Len(category_totals) |->
            IF category_totals[j].cat = cat
            THEN [cat |-> cat, scores |-> Append(category_totals[j].scores, score)]
            ELSE category_totals[j]]
    ELSE Append(category_totals, [cat |-> cat, scores |-> <<score>>])

(* The loop of analyze over self.kpis: a KPI without an actual value is    *)
(* skipped.  Yields the KPI scores and the category totals.                *)
RECURSIVE KpiLoop(_, _, _, _, _)
KpiLoop(i, kpis, actual_values, kpi_scores, category_totals) ==
    IF i > Len(kpis) THEN [kpi_scores |-> kpi_scores, category_totals |-> category_totals]
    ELSE IF kpis[i].kpi_id \notin DOMAIN actual_values
    THEN KpiLoop(i + 1, kpis, actual_values, kpi_scores, category_totals)
    ELSE LET score == score_kpi(kpis[i], actual_values[kpis[i].kpi_id])
         IN  KpiLoop(i + 1, kpis, actual_values, Append(kpi_scores, score),
                     AppendToCategory(category_totals, kpis[i].category, score.score))

(* sorted(kpi_scores, key=score, reverse=True): stable, descending.        *)
RECURSIVE InsertByScore(_, _)
InsertByScore(sorted, k) ==
    IF Len(sorted) = 0 THEN <<k>>
    ELSE IF FGe(Head(sorted).score, k.score)
         THEN <<Head(sorted)>> \o InsertByScore(Tail(sorted), k)
         ELSE <<k>> \o sorted

RECURSIVE SortByScore(_)
SortByScore(s) ==
    IF Len(s) = 0 THEN <<>>
    ELSE InsertByScore(SortByScore(SubSeq(s, 1, Len(s) - 1)), s[Len(s)])

(* f"{kpi_name}: {actual_value}{unit}", kept as its three parts.           *)
KpiLine(self, k) ==
    LET kpi == CHOOSE d \in Range(self.kpis) : d.kpi_id = k.kpi_id
    IN  [kpi_name |-> k.kpi_name, actual_value |-> k.actual_value, unit |-> kpi.unit]

RECURSIVE MapKpiLine(_, _)
MapKpiLine(self, s) ==
    IF Len(s) = 0 THEN <<>>
    ELSE <<KpiLine(self, Head(s))>> \o MapKpiLine(self, Tail(s))

RECURSIVE MapRecommendation(_)
MapRecommendation(s) ==
    IF Len(s) = 0 THEN <<>> ELSE <<Head(s).recommendation>> \o MapRecommendation(Tail(s))

(* The body of analyze from the KPI loop on, started with the given        *)
(* kpi_scores and category_totals.                                         *)
AnalyzeFrom(self, actual_values, entity_id, kpi_scores0, category_totals0) ==
    LET looped == KpiLoop(1, self.kpis, actual_values, kpi_scores0, category_totals0)
        kpi_scores == looped.kpi_scores
        category_totals == looped.category_totals
        category_scores ==
            [j \in 1..Len(category_totals) |->
                [cat |-> category_totals[j].cat,
                 score |-> FDiv(FSum(category_totals[j].scores),
                                FInt(Len(category_totals[j].scores)))]]
        weight(c) == Get(self.category_weights, c, FInt(1))
        overall ==
            IF Len(category_scores) > 0
            THEN FDiv(FSum([j \in 1..Len(category_scores) |->
                              FMul(category_scores[j].score, weight(category_scores[j].cat))]),
                      FSum([j \in 1..Len(category_scores) |-> weight(category_scores[j].cat)]))
            ELSE FInt(0)
        sorted_kpis == SortByScore(kpi_scores)
        strengths == MapKpiLine(self, SelectSeq(Prefix(sorted_kpis, 3),
                                                LAMBDA k : FGe(k.score, FInt(75))))
        improvements == MapKpiLine(self, SelectSeq(Suffix(sorted_kpis, 3),
                                                   LAMBDA k : FLt(k.score, FInt(60))))
        recommendations ==
            Prefix(MapRecommendation(SelectSeq(kpi_scores,
                        LAMBDA k : k.rating \in {"Poor", "Critical"})), 5)
    IN  [entity_id |-> entity_id, overall_score |-> overall,
         overall_rating |-> rate(overall), grade |-> grade(overall),
         category_scores |-> category_scores, kpi_scores |-> kpi_scores,
         strengths |-> strengths, improvements |-> improvements,
         recommendations |-> recommendations]

(* analyze with kpi_scores kept from the call before, as if the list lived *)
(* on the engine.                                                          *)
analyze_keeping_scores(self, actual_values, entity_id) ==
    AnalyzeFrom(self, actual_values, entity_id,
                IF Len(reports) = 0 THEN <<>> ELSE reports[Len(reports)].report.kpi_scores,
                <<>>)

(* BenchmarkEngine.analyze: kpi_scores and category_totals start empty in  *)
(* every call.                                                             *)
analyze(self, actual_values, entity_id) ==
    AnalyzeFrom(self, actual_values, entity_id, <<>>, <<>>)

(* BenchmarkEngine.__init__ as called by create_marketing_benchmarks and   *)
(* create_digital_benchmarks.                                              *)
BenchmarkEngine(kpis, category_weights) == [kpis |-> kpis, category_weights |-> category_weights]

create_marketing_benchmarks ==
    BenchmarkEngine(MarketingKpis,
        ("Acquisition" :> Frac(12, 10)) @@ ("Conversion" :> Frac(12, 10))
        @@ ("Revenue" :> Frac(11, 10)) @@ ("Engagement" :> FInt(1))
        @@ ("Retention" :> FInt(1)) @@ ("Brand" :> Frac(9, 10)))

create_digital_benchmarks == BenchmarkEngine(DigitalKpis, EmptyDict)

(* Number of analyze calls made on one engine.                             *)
MaxAnalyzeCalls == 3

(* actual_values of a call: strong and weak values over several            *)
(* categories, more than five weak KPIs, a single KPI, and no KPI.         *)
SampleActualValues == {
    ("cac" :> 25) @@ ("cpl" :> 50) @@ ("conversion_rate" :> 3) @@ ("email_open_rate" :> 10)
        @@ ("clv" :> 600) @@ ("nps" :> 20) @@ ("bounce_rate" :> 40) @@ ("paid_ctr" :> 1),
    ("conversion_rate" :> 1) @@ ("lead_to_customer" :> 4) @@ ("email_ctr" :> 1)
        @@ ("social_engagement" :> 0) @@ ("customer_retention" :> 40)
        @@ ("brand_awareness" :> 10) @@ ("pages_per_session" :> 1),
    ("cac" :> 100) @@ ("website_traffic" :> 12001),
    EmptyDict }

SampleEntityIds == {"unknown", "acme"}

AnalyzeIdle ==
    /\ engine = create_marketing_benchmarks
    /\ reports = <<>>

InitAnalyze ==
    /\ engine \in {create_marketing_benchmarks, create_digital_benchmarks}
    /\ reports = <<>>

(* One analyze call: the engine's attributes are read, none is assigned.   *)
Analyze(actual_values, entity_id) ==
    /\ Len(reports) < MaxAnalyzeCalls
    /\ reports' = Append(reports, [actual_values |-> actual_values, entity_id |-> entity_id,
                                   report |-> analyze(engine, actual_values, entity_id)])
    /\ UNCHANGED engine
    /\ UNCHANGED <<sgVars, alVars, bnVars, chVars, fnVars, cpVars, tpVars, rtVars, smVars, lgVars>>

-----------------------------------------------------------------------------
(* Direct calls of extract_topics.  A message is the question of the       *)
(* scenario, or a question naming two words: keywords in any case,         *)
(* keywords of two words, words that hold a keyword inside them, and       *)
(* words that hold none.                                                   *)

SampleWords ==
    {"ROI", "Return", "channel", "Leads", "heroic", "Engagement Rate", "customer lifetime",
     "unpaid", "COST", "weather", ""}

SampleTopicMessages ==
    {"What's our ROI by channel?"}
        \cup {"Tell me about " \o a \o " and " \o b \o "." : a, b \in SampleWords}

TopicsIdle ==
    /\ topic_message = ""
    /\ extracted_topics = <<>>
    /\ tp_pc = "idle"

InitTopics ==
    /\ topic_message \in SampleTopicMessages
    /\ extracted_topics = <<>>
    /\ tp_pc = "ready"

ExtractTopics ==
    /\ tp_pc = "ready"
    /\ extracted_topics' = extract_topics(topic_message)
    /\ tp_pc' = "done"
    /\ UNCHANGED topic_message
    /\ UNCHANGED <<sgVars, alVars, bnVars, chVars, fnVars, cpVars, anVars, rtVars, smVars, lgVars>>

-----------------------------------------------------------------------------
(* The four rating methods applied to one score.                           *)

(* How far below 0 and above 100 the sampled scores go.                    *)
ScoreSpan == 30

(* Sampled scores: every half point from -ScoreSpan to 100 + ScoreSpan.    *)
SampleScores == {Frac(n, 2) : n \in (0 - 2 * ScoreSpan)..(2 * (100 + ScoreSpan))}

NoLevels == [benchmark |-> "", campaign |-> "", status |-> "", channel |-> ""]

RatingIdle ==
    /\ rated_score = Zero
    /\ levels = NoLevels
    /\ rt_pc = "idle"

InitRating ==
    /\ rated_score \in SampleScores
    /\ levels = NoLevels
    /\ rt_pc = "ready"

Rate ==
    /\ rt_pc = "ready"
    /\ levels' = [benchmark |-> rate(rated_score),
                  campaign |-> campaign_rate(rated_score),
                  status |-> determine_status(rated_score),
                  channel |-> get_rating(rated_score)]
    /\ rt_pc' = "done"
    /\ UNCHANGED rated_score
    /\ UNCHANGED <<sgVars, alVars, bnVars, chVars, fnVars, cpVars, anVars, tpVars, smVars, lgVars>>

-----------------------------------------------------------------------------
(* Funnel Optimizer: simulate_improvement.                                 *)

(* int() of a rational: truncation towards zero.                           *)
IntOf(x) == IF x.num >= 0 THEN x.num \div x.den ELSE 0 - ((0 - x.num) \div x.den)

(* d with d[k] = v.                                                        *)
DictSet(d, k, v) == (k :> v) @@ d

(* min(1.0, rate + improvements[stage] / 100).                             *)
ImprovedRate(current_rate, improvement) == FMin(FInt(1), FAdd(current_rate, Frac(improvement, 100)))

(* The first loop: a copy of each stage's data, with the conversions of an *)
(* improved stage recomputed from its own visitors.                        *)
ApplyImprovements(stage_data, improvements) ==
    [stage \in DOMAIN stage_data |->
        LET data == stage_data[stage]
        IN  IF stage \in DOMAIN improvements
            THEN LET current_conv == Get(data, "conversions", 0)
                     visitors == Get(data, "visitors", 0)
                     own_rate == IF visitors > 0 THEN Frac(current_conv, visitors)
                                 ELSE Zero
                     new_rate == ImprovedRate(own_rate, improvements[stage])
                 IN  DictSet(data, "conversions", IntOf(FMul(FInt(visitors), new_rate)))
            ELSE data]

(* The cascade that feeds a stage from the visitors of the stage before.   *)
RECURSIVE CascadeLoopFromVisitors(_, _, _, _, _, _)
CascadeLoopFromVisitors(i, stages, stage_data, improvements, prev_conversions, modified_data) ==
    IF i > Len(stages) THEN modified_data
    ELSE LET stage == stages[i]
         IN  IF stage \in DOMAIN modified_data
             THEN LET original == Get(stage_data, stage, EmptyDict)
                      base == Frac(Get(original, "conversions", 0),
                                   Max(1, Get(original, "visitors", 1)))
                      stage_rate == IF stage \in DOMAIN improvements
                                    THEN ImprovedRate(base, improvements[stage]) ELSE base
                      cascaded ==
                          IF Len(prev_conversions) > 0
                          THEN DictSet(DictSet(modified_data[stage], "visitors", prev_conversions[1]),
                                       "conversions", IntOf(FMul(FInt(prev_conversions[1]), stage_rate)))
                          ELSE modified_data[stage]
                  IN  CascadeLoopFromVisitors(i + 1, stages, stage_data, improvements,
                                  <<Get(cascaded, "visitors", 0)>>,
                                  DictSet(modified_data, stage, cascaded))
             ELSE CascadeLoopFromVisitors(i + 1, stages, stage_data, improvements,
                                          prev_conversions, modified_data)

(* The cascade over self.stages.  prev_conversions is None (<<>>) before   *)
(* the first stage present in modified_data; a later present stage gets    *)
(* prev_conversions as visitors and int(prev_conversions * rate) as        *)
(* conversions, rate being taken from the caller's stage_data.             *)
RECURSIVE CascadeLoop(_, _, _, _, _, _)
CascadeLoop(i, stages, stage_data, improvements, prev_conversions, modified_data) ==
    IF i > Len(stages) THEN modified_data
    ELSE LET stage == stages[i]
         IN  IF stage \in DOMAIN modified_data
             THEN LET original == Get(stage_data, stage, EmptyDict)
                      base == Frac(Get(original, "conversions", 0),
                                   Max(1, Get(original, "visitors", 1)))
                      stage_rate == IF stage \in DOMAIN improvements
                                    THEN ImprovedRate(base, improvements[stage]) ELSE base
                      cascaded ==
                          IF Len(prev_conversions) > 0
                          THEN DictSet(DictSet(modified_data[stage], "visitors", prev_conversions[1]),
                                       "conversions", IntOf(FMul(FInt(prev_conversions[1]), stage_rate)))
                          ELSE modified_data[stage]
                  IN  CascadeLoop(i + 1, stages, stage_data, improvements,
                                  <<Get(cascaded, "conversions", 0)>>,
                                  DictSet(modified_data, stage, cascaded))
             ELSE CascadeLoop(i + 1, stages, stage_data, improvements,
                              prev_conversions, modified_data)

(* modified_data with the improvements applied and no cascade.             *)
modified_data_uncascaded(stages, stage_data, improvements) ==
    ApplyImprovements(stage_data, improvements)

(* modified_data as simulate_improvement hands it to analyze_funnel.       *)
modified_data_of(stages, stage_data, improvements) ==
    CascadeLoop(1, stages, stage_data, improvements, <<>>,
                ApplyImprovements(stage_data, improvements))

(* analyze_funnel: overall_conversion_rate and total_conversions.          *)
funnel_totals(stages, stage_data) ==
    LET stage_metrics == analyze_funnel_stages(stages, stage_data)
        total_visitors == IF Len(stage_metrics) > 0 THEN stage_metrics[1].visitors ELSE 0
        total_conversions == IF Len(stage_metrics) > 0
                             THEN stage_metrics[Len(stage_metrics)].conversions ELSE 0
    IN  [overall_conversion_rate |->
             IF total_visitors > 0 THEN Frac(total_conversions * 100, total_visitors) ELSE Zero,
         total_conversions |-> total_conversions]

(* simulate_improvement: the returned dict.                                *)
simulate_improvement(stages, stage_data, improvements) ==
    LET simulated == funnel_totals(stages, modified_data_of(stages, stage_data, improvements))
        original == funnel_totals(stages, stage_data)
    IN  [original_conversion_rate |-> original.overall_conversion_rate,
         simulated_conversion_rate |-> simulated.overall_conversion_rate,
         improvement_percent |-> FSub(simulated.overall_conversion_rate,
                                      original.overall_conversion_rate),
         original_conversions |-> original.total_conversions,
         simulated_conversions |-> simulated.total_conversions,
         additional_conversions |-> simulated.total_conversions - original.total_conversions]

MaxSimStages == 3   \* the simulated funnel is configured with at most this many stages

(* Per-stage inputs of the simulation: a funnel head, a follower that      *)
(* enters with the head's conversions, one that enters with more, and an   *)
(* empty stage.                                                            *)
SimStageData ==
    { [visitors |-> 1000, conversions |-> 300],
      [visitors |-> 300, conversions |-> 150],
      [visitors |-> 400, conversions |-> 100],
      [visitors |-> 0, conversions |-> 0] }

(* Percentage points of a proposed improvement: the larger one reaches the *)
(* cap of the rate at 1.0.                                                 *)
SampleImprovements == {5, 80}

(* Every dict over the first n stages whose values are drawn from S.       *)
RECURSIVE DictsOver(_, _, _)
DictsOver(i, n, S) ==
    IF i > n THEN {EmptyDict}
    ELSE LET rest == DictsOver(i + 1, n, S)
         IN  rest \cup {(DefaultStages[i] :> d) @@ r : d \in S, r \in rest}

NoSimResult ==
    [original_conversion_rate |-> Zero, simulated_conversion_rate |-> Zero,
     improvement_percent |-> Zero, original_conversions |-> 0,
     simulated_conversions |-> 0, additional_conversions |-> 0]

SimulateIdle ==
    /\ sim_call = [stages |-> <<>>, stage_data |-> EmptyDict, improvements |-> EmptyDict]
    /\ sim_modified = EmptyDict
    /\ sim_result = NoSimResult
    /\ sm_pc = "idle"

InitSimulate ==
    /\ \E n \in 1..Min(MaxSimStages, Len(DefaultStages)) :
          \E d \in DictsOver(1, n, SimStageData), imp \in DictsOver(1, n, SampleImprovements) :
             sim_call = [stages |-> SubSeq(DefaultStages, 1, n), stage_data |-> d,
                         improvements |-> imp]
    /\ sim_modified = EmptyDict
    /\ sim_result = NoSimResult
    /\ sm_pc = "ready"

SimulateImprovement ==
    /\ sm_pc = "ready"
    /\ sim_modified' = modified_data_of(sim_call.stages, sim_call.stage_data,
                                        sim_call.improvements)
    /\ sim_result' = simulate_improvement(sim_call.stages, sim_call.stage_data,
                                          sim_call.improvements)
    /\ sm_pc' = "done"
    /\ UNCHANGED sim_call
    /\ UNCHANGED <<sgVars, alVars, bnVars, chVars, fnVars, cpVars, anVars, tpVars, rtVars, lgVars>>

-----------------------------------------------------------------------------
(* Specifications, one per component.                                      *)

(* Direct calls of get_suggestions.                                        *)
InitSuggestSpec == InitSuggest /\ AlertInit /\ BenchIdle /\ ChannelIdle /\ FunnelIdle /\ CampaignIdle /\ AnalyzeIdle /\ TopicsIdle /\ RatingIdle /\ SimulateIdle /\ AlertLogIdle

NextSuggest == GetSuggestions

SpecSuggest == InitSuggestSpec /\ [][NextSuggest]_vars

(* One chat session driven through the web handlers, one request at a      *)
(* time.  A dismiss request carries a prompt the client was shown or has   *)
(* dismissed before, or no prompt.                                         *)
InitSessionSpec == InitSession /\ AlertInit /\ BenchIdle /\ ChannelIdle /\ FunnelIdle /\ CampaignIdle /\ AnalyzeIdle /\ TopicsIdle /\ RatingIdle /\ SimulateIdle /\ AlertLogIdle

NextSession ==
    \/ \E m \in SessionMessages : add_message(m)
    \/ api_chat_suggestions
    \/ \E p \in {out[i].prompt_text : i \in 1..Len(out)}
                \cup Range(session.dismissed_suggestions) \cup {""} :
            api_dismiss_suggestion(p)
    \/ \E m \in SessionMessages : api_track_topics(m.content)

SpecSession == InitSessionSpec /\ [][NextSession]_vars

(* One check_metrics call on a fresh engine.  The input is drawn only when *)
(* the thread is free to call.                                             *)
InitAlertSpec == SuggestIdle /\ AlertInit /\ BenchIdle /\ ChannelIdle /\ FunnelIdle /\ CampaignIdle /\ AnalyzeIdle /\ TopicsIdle /\ RatingIdle /\ SimulateIdle /\ AlertLogIdle

NextAlert ==
    \/ threads[1].pc = "idle" /\ \E d \in AlertInputs : check_metrics(1, d)
    \/ Evaluate(1)
    \/ GenRead(1)
    \/ GenWrite(1)
    \/ GenFormat(1)
    \/ SortAndReturn(1)

SpecAlert == InitAlertSpec /\ [][NextAlert]_vars

(* One engine used by one request after the other.                         *)
NextAlertSequential ==
    \/ /\ threads[1].pc = "idle"
       /\ Len(alert_log) < MaxAlertCalls
       /\ \E d \in ConcurrentInputs : check_metrics(1, d)
    \/ Evaluate(1)
    \/ GenRead(1)
    \/ GenWrite(1)
    \/ GenFormat(1)
    \/ SortAndReturn(1)
    \/ ReturnAlerts(1)

SpecAlertSequential == InitAlertSpec /\ [][NextAlertSequential]_vars

(* Two request threads sharing the engine, their steps interleaved.        *)
NextAlertConcurrent ==
    \/ \E t \in Threads :
            threads[t].pc = "idle" /\ \E d \in ConcurrentInputs : check_metrics(t, d)
    \/ \E t \in Threads : Evaluate(t)
    \/ \E t \in Threads : GenRead(t)
    \/ \E t \in Threads : GenWrite(t)
    \/ \E t \in Threads : GenFormat(t)
    \/ \E t \in Threads : SortAndReturn(t)

SpecAlertConcurrent == InitAlertSpec /\ [][NextAlertConcurrent]_vars

(* One _score_kpi call.                                                    *)
InitBenchSpec == SuggestIdle /\ AlertInit /\ InitBench /\ ChannelIdle /\ FunnelIdle /\ CampaignIdle /\ AnalyzeIdle /\ TopicsIdle /\ RatingIdle /\ SimulateIdle /\ AlertLogIdle

NextBench == ScoreKpi

SpecBench == InitBenchSpec /\ [][NextBench]_vars

(* One analyze_channel_mix call.                                           *)
InitChannelSpec == SuggestIdle /\ AlertInit /\ BenchIdle /\ InitChannel /\ FunnelIdle /\ CampaignIdle /\ AnalyzeIdle /\ TopicsIdle /\ RatingIdle /\ SimulateIdle /\ AlertLogIdle

NextChannel == AnalyzeChannelMix

SpecChannel == InitChannelSpec /\ [][NextChannel]_vars

(* One analyze_funnel call.                                                *)
InitFunnelSpec == SuggestIdle /\ AlertInit /\ BenchIdle /\ ChannelIdle /\ InitFunnel /\ CampaignIdle /\ AnalyzeIdle /\ TopicsIdle /\ RatingIdle /\ SimulateIdle /\ AlertLogIdle

NextFunnel == AnalyzeFunnel

SpecFunnel == InitFunnelSpec /\ [][NextFunnel]_vars

(* One CampaignScoringEngine.score call.                                   *)
InitCampaignSpec == SuggestIdle /\ AlertInit /\ BenchIdle /\ ChannelIdle /\ FunnelIdle /\ InitCampaign /\ AnalyzeIdle /\ TopicsIdle /\ RatingIdle /\ SimulateIdle /\ AlertLogIdle

NextCampaign == Score

SpecCampaign == InitCampaignSpec /\ [][NextCampaign]_vars

(* A series of analyze calls on one engine.                                *)
InitAnalyzeSpec == SuggestIdle /\ AlertInit /\ BenchIdle /\ ChannelIdle /\ FunnelIdle /\ CampaignIdle /\ InitAnalyze /\ TopicsIdle /\ RatingIdle /\ SimulateIdle /\ AlertLogIdle

NextAnalyze ==
    Len(reports) < MaxAnalyzeCalls
        /\ \E actual_values \in SampleActualValues, entity_id \in SampleEntityIds :
              Analyze(actual_values, entity_id)

SpecAnalyze == InitAnalyzeSpec /\ [][NextAnalyze]_vars

(* One extract_topics call.                                                *)
InitTopicsSpec == SuggestIdle /\ AlertInit /\ BenchIdle /\ ChannelIdle /\ FunnelIdle /\ CampaignIdle /\ AnalyzeIdle /\ InitTopics /\ RatingIdle /\ SimulateIdle /\ AlertLogIdle

NextTopics == ExtractTopics

SpecTopics == InitTopicsSpec /\ [][NextTopics]_vars

InitRatingSpec == SuggestIdle /\ AlertInit /\ BenchIdle /\ ChannelIdle /\ FunnelIdle /\ CampaignIdle /\ AnalyzeIdle /\ TopicsIdle /\ InitRating /\ SimulateIdle /\ AlertLogIdle

NextRating == Rate

SpecRating == InitRatingSpec /\ [][NextRating]_vars

InitSimulateSpec == SuggestIdle /\ AlertInit /\ BenchIdle /\ ChannelIdle /\ FunnelIdle /\ CampaignIdle /\ AnalyzeIdle /\ TopicsIdle /\ RatingIdle /\ InitSimulate /\ AlertLogIdle

NextSimulate == SimulateImprovement

SpecSimulate == InitSimulateSpec /\ [][NextSimulate]_vars

(* One call of one of the three engines: get_suggestions, extract_topics,  *)
(* or check_metrics when neither of the other two is the call under study. *)
InitEnginesSpec ==
    /\ \/ InitSuggest /\ TopicsIdle
       \/ SuggestIdle /\ InitTopics
       \/ SuggestIdle /\ TopicsIdle
    /\ AlertInit /\ BenchIdle /\ ChannelIdle /\ FunnelIdle /\ CampaignIdle /\ AnalyzeIdle /\ RatingIdle /\ SimulateIdle /\ AlertLogIdle

NextEngines ==
    \/ GetSuggestions
    \/ ExtractTopics
    \/ sg_pc = "idle" /\ tp_pc = "idle" /\ NextAlert

SpecEngines == InitEnginesSpec /\ [][NextEngines]_vars

(* One analyze_channel_mix call on a mix of Direct, Social (Organic) and   *)
(* Paid Search.                                                            *)
InitChannelZeroBenchmarksSpec == SuggestIdle /\ AlertInit /\ BenchIdle /\ InitChannelZeroBenchmarks /\ FunnelIdle /\ CampaignIdle /\ AnalyzeIdle /\ TopicsIdle /\ RatingIdle /\ SimulateIdle /\ AlertLogIdle

NextChannelZeroBenchmarks == AnalyzeChannelMix

SpecChannelZeroBenchmarks == InitChannelZeroBenchmarksSpec /\ [][NextChannelZeroBenchmarks]_vars

-----------------------------------------------------------------------------
(* Properties of the Suggestion Engine.                                    *)

(* The candidate list of the current call.                                 *)
CallCandidates ==
    Candidates(call.mode, call.context, call.conversation_history,
               call.discussed_topics, call.dismissed_prompts)

ContextTriggered(s) == s.category \in {"urgent", "opportunity"}
ModeDefault(s) == s.category = "general"
FollowUp(s) == s.category = "follow_up"

(* C1: once a prompt text is in the session's dismissed prompts, no later  *)
(* get_suggestions call given that dismissed list returns a suggestion     *)
(* with that text, whichever of the three sources produced it.             *)
C1_DismissedNeverReturned ==
    sg_pc = "done" =>
        \A i \in 1..Len(out) : out[i].prompt_text \notin Range(call.dismissed_prompts)

(* C2: no suggestion returned by get_suggestions has a topic tag that is   *)
(* an element of discussed_topics.                                         *)
C2_NoDiscussedTag ==
    sg_pc = "done" =>
        \A i \in 1..Len(out) : \A k \in 1..Len(out[i].topic_tags) :
            out[i].topic_tags[k] \notin Range(call.discussed_topics)

(* A call returned suggestions, and with nothing discussed it would have   *)
(* returned one carrying a discussed tag.                                  *)
C2_Witness ==
    /\ sg_pc = "done"
    /\ Len(out) > 0
    /\ LET undiscussed == get_suggestions(call.mode, call.context,
                                          call.conversation_history, <<>>,
                                          call.dismissed_prompts, call.max_suggestions)
       IN  \E i \in 1..Len(undiscussed) : \E k \in 1..Len(undiscussed[i].topic_tags) :
               undiscussed[i].topic_tags[k] \in Range(call.discussed_topics)

(* C3: for every non-negative max_suggestions the returned list has at     *)
(* most max_suggestions elements.                                          *)
C3_AtMostMax ==
    (sg_pc = "done" /\ call.max_suggestions >= 0) => Len(out) <= call.max_suggestions

(* A call with more candidates than max_suggestions, from all three        *)
(* sources, returned exactly max_suggestions of them.                      *)
C3_Witness ==
    /\ sg_pc = "done"
    /\ call.max_suggestions > 0
    /\ Len(CallCandidates) > call.max_suggestions
    /\ \E i \in 1..Len(CallCandidates) : ContextTriggered(CallCandidates[i])
    /\ \E i \in 1..Len(CallCandidates) : ModeDefault(CallCandidates[i])
    /\ \E i \in 1..Len(CallCandidates) : FollowUp(CallCandidates[i])
    /\ Len(out) = call.max_suggestions

(* C4: in the returned list every context-triggered prompt (relevance      *)
(* 75..98) comes before every mode-default prompt (relevance at most 50),  *)
(* and a mode-default prompt is returned only if every non-suppressed      *)
(* context-triggered candidate of the call is returned too.                *)
C4_ContextBeforeDefault ==
    sg_pc = "done" =>
        /\ \A i \in 1..Len(out) :
               /\ ContextTriggered(out[i]) => out[i].relevance_score \in 75..98
               /\ ModeDefault(out[i]) => out[i].relevance_score <= 50
        /\ \A i, j \in 1..Len(out) :
               (ContextTriggered(out[i]) /\ ModeDefault(out[j])) => i < j
        /\ (\E j \in 1..Len(out) : ModeDefault(out[j])) =>
               \A c \in 1..Len(CallCandidates) :
                   ContextTriggered(CallCandidates[c]) =>
                       \E i \in 1..Len(out) : out[i] = CallCandidates[c]

(* A truncated result holding a context-triggered and a mode-default       *)
(* prompt.                                                                 *)
C4_Witness ==
    /\ sg_pc = "done"
    /\ Len(CallCandidates) > Len(out)
    /\ \E i \in 1..Len(out) : ContextTriggered(out[i])
    /\ \E j \in 1..Len(out) : ModeDefault(out[j])

-----------------------------------------------------------------------------
(* Properties of the Benchmark Engine.                                     *)

(* C5: for every KPI of a catalog and every actual value, negative and     *)
(* zero included, the score computed for the KPI is at least 0 and at      *)
(* most 120.                                                               *)
C5_ScoreInRange ==
    bn_pc = "done" =>
        /\ FGe(kpi_score.score, FInt(0))
        /\ FLe(kpi_score.score, FInt(120))

(* The stated score: the cap at 120 of the ratio to the benchmark, turned  *)
(* over for lower-is-better, and 100 where the divisor is not positive.    *)
StatedCap(x) == IF FGt(x, FInt(120)) THEN FInt(120) ELSE x

StatedScore(kpi, actual) ==
    CASE kpi.direction = "higher_is_better" /\ kpi.benchmark_value > 0 ->
            StatedCap(Frac(actual * 100, kpi.benchmark_value))
      [] kpi.direction = "higher_is_better" /\ kpi.benchmark_value <= 0 -> FInt(100)
      [] kpi.direction = "lower_is_better" /\ actual > 0 ->
            StatedCap(Frac(kpi.benchmark_value * 100, actual))
      [] kpi.direction = "lower_is_better" /\ actual <= 0 -> FInt(100)

(* The stated ladder 90 / 75 / 60 / 40.                                    *)
StatedRating(score) ==
    CASE FGe(score, FInt(90)) -> "Excellent"
      [] FLt(score, FInt(90)) /\ FGe(score, FInt(75)) -> "Good"
      [] FLt(score, FInt(75)) /\ FGe(score, FInt(60)) -> "Fair"
      [] FLt(score, FInt(60)) /\ FGe(score, FInt(40)) -> "Poor"
      [] FLt(score, FInt(40)) -> "Critical"

(* C14: the score of a KPI is the stated one (the capped ratio when the    *)
(* divisor is positive, 100 otherwise) and its rating is the one the       *)
(* 90 / 75 / 60 / 40 ladder gives that score.                              *)
C14_ScoreAndRatingAsStated ==
    bn_pc = "done" =>
        /\ kpi_score.score = StatedScore(kpi_call.kpi, kpi_call.actual)
        /\ kpi_score.rating = StatedRating(kpi_score.score)

(* cac with benchmark 50 and actual 25 scored 120, Excellent.              *)
C14_Witness ==
    /\ bn_pc = "done"
    /\ kpi_call.kpi.kpi_id = "cac"
    /\ kpi_call.kpi.benchmark_value = 50
    /\ kpi_call.actual = 25
    /\ kpi_score.score = FInt(120)
    /\ kpi_score.rating = "Excellent"

-----------------------------------------------------------------------------
(* Properties of the Alert Engine.                                         *)

(* The ids handed out so far, as (thread, index) -> id.                    *)
AlertSlots == {<<t, i>> : t \in Threads, i \in 1..MaxChannels + MaxCampaigns + 1}
Issued == {x \in AlertSlots : x[2] <= Len(threads[x[1]].alerts)}

(* C6: with two check_metrics calls running concurrently on the shared     *)
(* engine, no two alerts, of one call or of both, carry the same id        *)
(* counter value.                                                          *)
C6_DistinctIds ==
    \A x, y \in Issued :
        x # y => threads[x[1]].alerts[x[2]].id # threads[y[1]].alerts[y[2]].id

(* The call thread 1 has returned from: its input, its ROAS value and the  *)
(* alerts returned without their ids.                                      *)
Returned == threads[1].pc = "done"
InputMetrics == Get(threads[1].data, "metrics", EmptyDict)
InputRoas == Get(InputMetrics, "roas", FInt(0))
StripId(a) == [f \in DOMAIN NoAlert |-> a[f]]
Result == [i \in 1..Len(threads[1].alerts) |-> StripId(threads[1].alerts[i])]
RoiAlerts == SelectSeq(Result, LAMBDA a : a.category = "roi")
RoasAlert(severity) ==
    \E i \in 1..Len(Result) :
        /\ Result[i].category = "roi"
        /\ Result[i].metric_name = "ROAS"
        /\ Result[i].severity = severity

C8_ExactlyOneRoiAlert ==
    (/\ Returned
     /\ thresholds = THRESHOLDS
     /\ FGt(InputRoas, FInt(0))
     /\ FLt(InputRoas, FInt(1))) =>
        /\ Len(RoiAlerts) = 1
        /\ RoiAlerts[1].severity = "critical"
        /\ RoiAlerts[1].metric_name = "ROAS"
        /\ RoiAlerts[1].current_value = InputRoas
        /\ RoiAlerts[1].threshold_value = FInt(1)

(* The call with roas = 0.5 and total_spend = 1000 returned, with a        *)
(* critical channel alert next to the ROAS one.                            *)
C8_Witness ==
    /\ Returned
    /\ thresholds = THRESHOLDS
    /\ InputRoas = Frac(1, 2)
    /\ Get(InputMetrics, "total_spend", 0) = 1000
    /\ Len(RoiAlerts) = 1
    /\ \E i \in 1..Len(Result) :
           Result[i].category = "channel" /\ Result[i].severity = "critical"

(* The alerts of the call in evaluation order: the ROAS rule, the channels *)
(* in input order, the campaigns in input order.                           *)
Evaluated ==
    LET data == threads[1].data
        all == [p \in 1..LastPos(data) + 1 |-> RuleAt(thresholds, data, p - 1)]
    IN  SelectSeq(all, LAMBDA a : a.severity # "")

OfSeverity(alerts, severity) == SelectSeq(alerts, LAMBDA a : a.severity = severity)

(* C9: the returned list is ordered critical, warning, info, and within    *)
(* one severity the alerts keep their evaluation order.                    *)
C9_SeverityThenEvaluationOrder ==
    Returned =>
        Result = OfSeverity(Evaluated, "critical")
                     \o OfSeverity(Evaluated, "warning")
                     \o OfSeverity(Evaluated, "info")

(* A returned list the sort has reordered, with a critical alert, two      *)
(* warnings of different rules and two warnings of different channels.     *)
C9_Witness ==
    /\ Returned
    /\ Result # Evaluated
    /\ Len(OfSeverity(Result, "critical")) >= 1
    /\ \E i, j \in 1..Len(Result) :
           /\ Result[i].severity = "warning"
           /\ Result[j].severity = "warning"
           /\ Result[i].category # Result[j].category
    /\ \E i, j \in 1..Len(Result) :
           /\ Result[i].severity = "warning"
           /\ Result[j].severity = "warning"
           /\ Result[i].category = "channel"
           /\ Result[j].category = "channel"
           /\ Result[i].metric_name # Result[j].metric_name

-----------------------------------------------------------------------------
(* Properties of the Channel Mix Analyzer.                                 *)

(* The share and the shift the budget rule states for a channel of the     *)
(* returned mix.                                                           *)
StatedShare(p) ==
    IF mix.total_spend > 0 THEN Frac(p.metrics.spend * 100, mix.total_spend) ELSE FInt(0)

StatedShift(p) ==
    LET share == StatedShare(p)
        e == p.efficiency_score
        boosted == FMul(share, Frac(13, 10))
    IN  CASE FGe(e, FInt(80)) ->
                 IF FLe(boosted, FInt(40)) THEN FSub(boosted, share)
                 ELSE FSub(FInt(40), share)
          [] FGe(e, FInt(60)) /\ FLt(e, FInt(80)) -> FInt(0)
          [] FGe(e, FInt(40)) /\ FLt(e, FInt(60)) -> FMul(share, Frac(-1, 5))
          [] FLt(e, FInt(40)) -> FMul(share, Frac(-2, 5))

(* C10: for every channel of analyze_channel_mix the shift is              *)
(* min(share*1.3, 40) - share at efficiency >= 80, 0 in the 60..79 band,   *)
(* -share*0.2 in the 40..59 band and -share*0.4 below 40, and the channel  *)
(* is in recommended_budget_shifts, with that shift, exactly when          *)
(* abs(shift) > 2.                                                         *)
C10_BudgetShifts ==
    ch_pc = "done" =>
        /\ \A i \in 1..Len(mix.channel_performances) :
               LET p == mix.channel_performances[i]
                   shift == StatedShift(p)
               IN  /\ p.channel \in DOMAIN mix.recommended_budget_shifts
                          <=> (FGt(shift, FInt(2)) \/ FLt(shift, FInt(-2)))
                   /\ p.channel \in DOMAIN mix.recommended_budget_shifts
                          => mix.recommended_budget_shifts[p.channel] = shift
        /\ DOMAIN mix.recommended_budget_shifts
               \subseteq {mix.channel_performances[i].channel :
                              i \in 1..Len(mix.channel_performances)}

(* A mix with a channel of efficiency 85 holding 10% of the spend,         *)
(* reported with a shift of +3, and a channel that is not reported.        *)
C10_Witness ==
    /\ ch_pc = "done"
    /\ \E i \in 1..Len(mix.channel_performances) :
           LET p == mix.channel_performances[i]
           IN  /\ p.efficiency_score = FInt(85)
               /\ StatedShare(p) = FInt(10)
               /\ p.channel \in DOMAIN mix.recommended_budget_shifts
               /\ mix.recommended_budget_shifts[p.channel] = FInt(3)
    /\ \E i \in 1..Len(mix.channel_performances) :
           mix.channel_performances[i].channel \notin DOMAIN mix.recommended_budget_shifts

-----------------------------------------------------------------------------
(* Properties of the Funnel Optimizer.                                     *)

(* The inputs of stage i of the call as the caller gave them.              *)
StageInput(i) == Get(funnel_call.stage_data, funnel_call.stages[i], EmptyDict)
StageVisitors(i) == Get(StageInput(i), "visitors", 0)
StageConversions(i) == Get(StageInput(i), "conversions", 0)

(* C11: the first stage's drop_off_rate is 100 - its conversion_rate, and  *)
(* a later stage whose preceding stage has conversions > 0 has             *)
(* drop_off_rate 100 - visitors / (preceding stage's conversions) * 100:   *)
(* the entry base is the preceding conversions, not its visitors.          *)
C11_DropOffFromPriorConversions ==
    fn_pc = "done" =>
        /\ Len(funnel) = Len(funnel_call.stages)
        /\ Len(funnel) > 0 =>
               funnel[1].drop_off_rate = FSub(FInt(100), funnel[1].conversion_rate)
        /\ \A i \in 2..Len(funnel) :
               StageConversions(i - 1) > 0 =>
                   funnel[i].drop_off_rate =
                       FSub(FInt(100),
                            Frac(StageVisitors(i) * 100, StageConversions(i - 1)))

(* Awareness with 1000 visitors and 300 conversions, followed by a stage   *)
(* of 240 visitors: its drop-off is 20 (against 300), not 76 (against      *)
(* 1000).                                                                  *)
C11_Witness ==
    /\ fn_pc = "done"
    /\ Len(funnel) >= 2
    /\ funnel[1].stage = "Awareness"
    /\ funnel[1].visitors = 1000
    /\ funnel[1].conversions = 300
    /\ funnel[1].conversion_rate = FInt(30)
    /\ funnel[2].visitors = 240
    /\ funnel[2].drop_off_rate = FInt(20)

-----------------------------------------------------------------------------
(* Further properties of the Channel Mix Analyzer.                         *)

(* C12: for every channel type and every ChannelMetrics with spend == 0,   *)
(* whatever its impressions, clicks, conversions and revenue,              *)
(* analyze_channel returns cpc = 0, cpa = 0 and roas = 0; every channel of *)
(* the mix is analysed.                                                    *)
C12_ZeroSpendRatios ==
    ch_pc = "done" =>
        /\ Len(mix.channel_performances) = Len(channel_data)
        /\ \A i \in 1..Len(mix.channel_performances) :
               LET p == mix.channel_performances[i]
               IN  p.metrics.spend = 0 =>
                       /\ p.cpc = FInt(0)
                       /\ p.cpa = FInt(0)
                       /\ p.roas = FInt(0)

(* A mix whose channels all have no spend: one without clicks, one with    *)
(* clicks and a conversion, one with revenue.                              *)
C12_Witness ==
    /\ ch_pc = "done"
    /\ \A i \in 1..Len(mix.channel_performances) :
           mix.channel_performances[i].metrics.spend = 0
    /\ \E i \in 1..Len(mix.channel_performances) :
           mix.channel_performances[i].metrics.clicks = 0
    /\ \E i \in 1..Len(mix.channel_performances) :
           /\ mix.channel_performances[i].metrics.clicks > 0
           /\ mix.channel_performances[i].metrics.conversions > 0
    /\ \E i \in 1..Len(mix.channel_performances) :
           mix.channel_performances[i].metrics.revenue > 0

-----------------------------------------------------------------------------
(* Properties of the Campaign Scoring Engine.                              *)

(* The component of the scored engine that a component score belongs to.   *)
ComponentOf(cs) ==
    CHOOSE c \in Range(campaign_call.components) : c.component_id = cs.component_id

(* The stated normalization: 50 on a single-point range, else the position *)
(* in the range (mirrored when lower is better) as a percentage, cut to    *)
(* 0..100.                                                                 *)
StatedClamp(x) ==
    IF FLt(x, FInt(0)) THEN FInt(0) ELSE IF FGt(x, FInt(100)) THEN FInt(100) ELSE x

StatedNormalized(value, c) ==
    IF c.max_value = c.min_value THEN FInt(50)
    ELSE IF c.higher_is_better
    THEN StatedClamp(Frac((value - c.min_value) * 100, c.max_value - c.min_value))
    ELSE StatedClamp(Frac((c.max_value - value) * 100, c.max_value - c.min_value))

(* C13: every component score of a finished score call carries the stated  *)
(* normalization of its raw value (50 on a single-point range, else the    *)
(* clamped percentage, mirrored for lower-is-better), and a score below 40 *)
(* is rated Critical.                                                      *)
C13_NormalizedAsStated ==
    cp_pc = "done" =>
        \A i \in 1..Len(component_scores) :
            LET cs == component_scores[i]
            IN  /\ cs.normalized_score = StatedNormalized(cs.raw_value, ComponentOf(cs))
                /\ FLt(cs.normalized_score, FInt(40)) => cs.rating = "Critical"

(* A cost per acquisition of 80 on the range 0..100 was normalized to 20   *)
(* and rated Critical.                                                     *)
C13_Witness ==
    /\ cp_pc = "done"
    /\ \E i \in 1..Len(component_scores) :
          /\ component_scores[i].component_id = "cost_per_acquisition"
          /\ component_scores[i].raw_value = 80
          /\ component_scores[i].normalized_score = FInt(20)
          /\ component_scores[i].rating = "Critical"

(* The component scores below 60, and those of them that an "Improve"      *)
(* recommendation names.                                                   *)
WeakComponents == {i \in 1..Len(component_scores) :
                      FLt(component_scores[i].normalized_score, FInt(60))}

NamedToImprove ==
    {i \in WeakComponents :
        ("Improve " \o component_scores[i].name \o " performance")
            \in Range(campaign_score.recommendations)}

(* C22: with more than three components below 60, the three named by the   *)
(* "Improve" recommendations are three with the lowest normalized scores   *)
(* (no weak component left out scores lower than a named one); a Critical  *)
(* status puts the pause recommendation first, an Excellent one the scale  *)
(* recommendation last.                                                    *)
C22_WeakestThreeNamed ==
    cp_pc = "done" =>
        /\ Cardinality(WeakComponents) > 3 =>
              /\ Cardinality(NamedToImprove) = 3
              /\ \A n \in NamedToImprove : \A u \in WeakComponents \ NamedToImprove :
                    FLe(component_scores[n].normalized_score,
                        component_scores[u].normalized_score)
        /\ campaign_score.status = "Critical" =>
              campaign_score.recommendations[1] = "Consider pausing campaign for optimization"
        /\ campaign_score.status = "Excellent" =>
              campaign_score.recommendations[Len(campaign_score.recommendations)]
                  = "Scale successful tactics to other campaigns"

-----------------------------------------------------------------------------
(* Properties of BenchmarkEngine.analyze.                                  *)

-----------------------------------------------------------------------------
(* Further properties of the Suggestion Engine.                            *)

(* C16: a get_suggestions call whose mode is none of the modes that have   *)
(* prompts of their own does not return a result.                          *)
C16_UnknownModeFails ==
    call.mode \notin DOMAIN BASE_PROMPTS => sg_pc # "done"

(* A rule's condition or the formatting of its prompt raises on the        *)
(* context of the current call.                                            *)
RuleRaises(trigger) ==
    \/ ConditionRaises(trigger.name, call.context)
    \/ Condition(trigger.name, call.context) /\ FormatRaises(call.context)

(* The candidates a rule put on a candidate list.                          *)
CandidatesOfRule(trigger, candidates) ==
    {i \in 1..Len(candidates) :
        /\ ContextTriggered(candidates[i])
        /\ candidates[i].topic_tags = trigger.tags
        /\ candidates[i].relevance_score = trigger.relevance}

(* The mode's own prompts that are neither discussed nor dismissed.        *)
OpenBasePrompts ==
    SelectSeq(Get(BASE_PROMPTS, call.mode, BASE_PROMPTS["general"]), LAMBDA p :
        /\ \A k \in 1..Len(p.tags) : p.tags[k] \notin Range(call.discussed_topics)
        /\ p.text \notin Range(call.dismissed_prompts))

(* C17: a finished call returned a list; a rule that raised put no         *)
(* candidate on it; every other rule, before or after a raising one, put   *)
(* its candidate on it exactly when its condition held and its prompt was  *)
(* neither discussed nor dismissed; and the mode-default prompts and the   *)
(* follow-ups are all on the candidate list.                               *)
C17_RaisingRuleSkipped ==
    sg_pc = "done" =>
        LET candidates == CallCandidates
            defaults == SelectSeq(candidates, ModeDefault)
            open == OpenBasePrompts
        IN  /\ \A r \in 1..Len(CONTEXT_TRIGGERS) :
                  LET trigger == CONTEXT_TRIGGERS[r]
                  IN  IF RuleRaises(trigger) THEN CandidatesOfRule(trigger, candidates) = {}
                      ELSE Cardinality(CandidatesOfRule(trigger, candidates)) =
                            IF /\ Condition(trigger.name, call.context)
                               /\ \A k \in 1..Len(trigger.tags) :
                                      trigger.tags[k] \notin Range(call.discussed_topics)
                               /\ format_prompt(trigger, call.context)
                                      \notin Range(call.dismissed_prompts)
                            THEN 1 ELSE 0
            /\ Len(defaults) = Len(open)
            /\ \A i \in 1..Len(open) : defaults[i].prompt_text = open[i].text
            /\ SelectSeq(candidates, FollowUp) =
                  generate_follow_ups(call.conversation_history, call.discussed_topics)
            /\ \A i \in 1..Len(out) : out[i] \in Range(candidates)
            /\ Len(out) = Min(call.max_suggestions, Len(candidates))

(* A call whose context made a rule raise returned the candidate of a rule *)
(* that comes after the raising one, a mode default and a follow-up.       *)
C17_Witness ==
    /\ sg_pc = "done"
    /\ call.context = CtxBadChannel
    /\ RuleRaises(CONTEXT_TRIGGERS[5])
    /\ \E i \in 1..Len(out) :
          ContextTriggered(out[i]) /\ out[i].topic_tags = CONTEXT_TRIGGERS[6].tags
    /\ \E i \in 1..Len(out) : ModeDefault(out[i])
    /\ \E i \in 1..Len(out) : FollowUp(out[i])

(* A keyword occurs in a message, in whatever case the message has it.     *)
OccursIn(kw, message) ==
    \E i \in 1..Len(message) :
        /\ i + Len(kw) - 1 <= Len(message)
        /\ Lower(SubSeq(message, i, i + Len(kw) - 1)) = kw

(* C18: the topics returned for a message are exactly the topics of the    *)
(* nine tables with a keyword occurring in it in any case, each once; for  *)
(* "What's our ROI by channel?" they are roi and channels.                 *)
C18_TopicsAsStated ==
    tp_pc = "done" =>
        /\ Len(topic_keywords) = 9
        /\ \A t \in 1..Len(topic_keywords) :
              (topic_keywords[t].topic \in Range(extracted_topics))
                <=> \E k \in 1..Len(topic_keywords[t].keywords) :
                        OccursIn(topic_keywords[t].keywords[k], topic_message)
        /\ Range(extracted_topics) \subseteq {topic_keywords[t].topic : t \in 1..Len(topic_keywords)}
        /\ Cardinality(Range(extracted_topics)) = Len(extracted_topics)
        /\ topic_message = "What's our ROI by channel?" => Range(extracted_topics) = {"roi", "channels"}

(* The question about ROI by channel yielded roi and channels.             *)
C18_Witness ==
    /\ tp_pc = "done"
    /\ topic_message = "What's our ROI by channel?"
    /\ extracted_topics = <<"roi", "channels">>

(* The positions of the mode-default prompts on a candidate list, in list  *)
(* order.  Defaults are appended after the context-triggered candidates,   *)
(* so position p was given its relevance with p - 1 suggestions on the     *)
(* list.                                                                   *)
DefaultPositions(candidates) ==
    SelectSeq([p \in 1..Len(candidates) |-> p], LAMBDA p : ModeDefault(candidates[p]))

(* C19 as stated: the relevance of the mode defaults of a call is strictly *)
(* decreasing from each to the next, is 50 for a default added to an empty *)
(* list, and is never below 20.                                            *)
C19_StrictlyDecreasing ==
    sg_pc = "done" =>
        LET candidates == CallCandidates
            at == DefaultPositions(candidates)
        IN  /\ \A i \in 1..Len(at) : candidates[at[i]].relevance_score >= 20
            /\ \A i \in 1..Len(at) : at[i] = 1 => candidates[at[i]].relevance_score = 50
            /\ \A i \in 1..(Len(at) - 1) :
                  candidates[at[i + 1]].relevance_score < candidates[at[i]].relevance_score

(* C19, amended: a mode default added with k suggestions on the list gets  *)
(* 50 - 5k, or 20 where that is lower; from one default to the next the    *)
(* relevance drops by 5 while it is above 20 and stays at 20 once there.   *)
C19_DecreasingDownToFloor ==
    sg_pc = "done" =>
        LET candidates == CallCandidates
            at == DefaultPositions(candidates)
            rel(i) == candidates[at[i]].relevance_score
        IN  /\ \A i \in 1..Len(at) :
                  rel(i) = IF 50 - 5 * (at[i] - 1) >= 20 THEN 50 - 5 * (at[i] - 1) ELSE 20
            /\ \A i \in 1..(Len(at) - 1) :
                  IF rel(i) > 20 THEN rel(i + 1) = rel(i) - 5 ELSE rel(i + 1) = 20

(* A call with context-triggered candidates whose mode defaults went from  *)
(* above the floor down to it and stayed there: 25, 20, 20.                *)
C19_Witness ==
    /\ sg_pc = "done"
    /\ LET candidates == CallCandidates
           at == DefaultPositions(candidates)
       IN  /\ Len(at) = 3
           /\ at[1] > 1
           /\ candidates[at[1]].relevance_score = 25
           /\ candidates[at[2]].relevance_score = 20
           /\ candidates[at[3]].relevance_score = 20

(* The positions of the assistant messages among the last four entries of  *)
(* the history of the current call.                                        *)
RecentAssistants ==
    LET h == call.conversation_history
    IN  {i \in 1..Len(h) : i > Len(h) - 4 /\ h[i].role = "assistant"}

(* The follow-up prompts that the message at position i of the history     *)
(* calls for: those with a keyword in it and no discussed tag, in the      *)
(* order of the trigger list.                                              *)
CalledFor(i) ==
    LET content == Lower(call.conversation_history[i].content)
    IN  SelectSeq(follow_up_triggers, LAMBDA t :
            /\ \E k \in 1..Len(t.keywords) : Contains(content, t.keywords[k])
            /\ \A k \in 1..Len(t.tags) : t.tags[k] \notin Range(call.discussed_topics))

(* C20: a call generated at most two follow-ups; with no assistant message *)
(* among the last four history entries it generated none; otherwise they   *)
(* are the first two prompts called for by the latest of those assistant   *)
(* messages, and by no other message.                                      *)
C20_FollowUpsFromLatestAssistant ==
    sg_pc = "done" =>
        LET follow_ups == SelectSeq(CallCandidates, FollowUp)
        IN  /\ Len(follow_ups) <= 2
            /\ RecentAssistants = {} => follow_ups = <<>>
            /\ RecentAssistants # {} =>
                  LET latest == CHOOSE i \in RecentAssistants :
                                    \A j \in RecentAssistants : j <= i
                      called == CalledFor(latest)
                  IN  /\ Len(follow_ups) = Min(2, Len(called))
                      /\ \A n \in 1..Len(follow_ups) :
                            /\ follow_ups[n].prompt_text = called[n].prompt
                            /\ follow_ups[n].topic_tags = called[n].tags

(* Two assistant messages among the last four entries, the older one       *)
(* calling for follow-ups the latest does not call for: the returned       *)
(* follow-up is the one of the latest message.                             *)
C20_Witness ==
    /\ sg_pc = "done"
    /\ Cardinality(RecentAssistants) = 2
    /\ call.discussed_topics = <<>>
    /\ Len(CalledFor(1)) > 2
    /\ \E i \in 1..Len(out) :
          FollowUp(out[i]) /\ out[i].prompt_text = "How should we reallocate budget based on this?"
    /\ Cardinality({i \in 1..Len(out) : FollowUp(out[i])}) = 1

(* The place of candidate i in the returned order: one more than the       *)
(* number of candidates of higher relevance and of candidates of equal     *)
(* relevance that were put on the list before it.                          *)
PlaceOf(i, candidates) ==
    1 + Cardinality({j \in 1..Len(candidates) :
            \/ candidates[j].relevance_score > candidates[i].relevance_score
            \/ candidates[j].relevance_score = candidates[i].relevance_score /\ j < i})

(* C21: the returned list holds, at each place up to max_suggestions, the  *)
(* candidate whose place that is: relevance descending, candidates of      *)
(* equal relevance in the order they were put on the candidate list.       *)
C21_StableDescendingCut ==
    sg_pc = "done" =>
        LET candidates == CallCandidates
        IN  /\ Len(out) = Min(call.max_suggestions, Len(candidates))
            /\ \A i \in 1..Len(candidates) :
                  LET place == PlaceOf(i, candidates)
                  IN  place <= Len(out) => out[place] = candidates[i]

(* Two follow-ups of relevance 70, put on the list after the mode defaults, *)
(* were returned ahead of them and in the order they were put on the list, *)
(* and the list was cut.                                                   *)
C21_Witness ==
    /\ sg_pc = "done"
    /\ Len(out) = 4
    /\ Len(CallCandidates) > 4
    /\ out[1].relevance_score = 70 /\ out[2].relevance_score = 70
    /\ out[1].prompt_text = "Can you elaborate on those recommendations?"
    /\ out[2].prompt_text = "Which specific campaign should we focus on first?"
    /\ ModeDefault(out[3]) /\ ModeDefault(out[4])

-----------------------------------------------------------------------------
(* Properties of the rating ladders.                                       *)

(* The level the stated cut points give.                                   *)
StatedLevel(score) ==
    IF FGe(score, FInt(90)) THEN "Excellent"
    ELSE IF FGe(score, FInt(75)) THEN "Good"
    ELSE IF FGe(score, FInt(60)) THEN "Fair"
    ELSE IF FGe(score, FInt(40)) THEN "Poor"
    ELSE "Critical"

(* C23: for every score, negative and above 100 included, the four rating  *)
(* methods return the same level, and it is the one of the cut points      *)
(* 90 / 75 / 60 / 40.                                                      *)
C23_LaddersAgree ==
    rt_pc = "done" =>
        /\ levels.benchmark = StatedLevel(rated_score)
        /\ levels.campaign = levels.benchmark
        /\ levels.status = levels.benchmark
        /\ levels.channel = levels.benchmark

(* A score exactly on a cut point has been rated by the four methods.      *)
C23_Witness ==
    /\ rt_pc = "done"
    /\ rated_score = FInt(75)
    /\ levels.status = "Good"
    /\ levels.channel = "Good"

-----------------------------------------------------------------------------
(* Properties of the recommended shares.                                   *)

(* current_share + shift of a channel with a reported shift.               *)
RecommendedShare(p) ==
    FAdd(CurrentShare(p, mix.total_spend), mix.recommended_budget_shifts[p.channel])

(* The performances of the mix whose shift is reported.                     *)
ReportedPerformances ==
    {i \in 1..Len(mix.channel_performances) :
        mix.channel_performances[i].channel \in DOMAIN mix.recommended_budget_shifts}

-----------------------------------------------------------------------------
(* Properties of simulate_improvement.                                     *)

(* The positions of the configured stages that stage_data holds.           *)
PresentStages == {i \in 1..Len(sim_call.stages) : sim_call.stages[i] \in DOMAIN sim_call.stage_data}

(* The present stage before present stage i: 0 when i is the first.        *)
PresentBefore(i) ==
    LET before == {j \in PresentStages : j < i}
    IN  IF before = {} THEN 0 ELSE CHOOSE j \in before : \A k \in before : k <= j

(* The stated rate of stage i: its original conversions / visitors, plus   *)
(* improvement / 100 capped at 1 when the stage has an improvement.        *)
StatedRate(i) ==
    LET stage == sim_call.stages[i]
        original == Frac(sim_call.stage_data[stage].conversions,
                         sim_call.stage_data[stage].visitors)
        improved == FAdd(original, Frac(Get(sim_call.improvements, stage, 0), 100))
    IN  IF stage \notin DOMAIN sim_call.improvements THEN original
        ELSE IF FLe(improved, FInt(1)) THEN improved ELSE FInt(1)

(* k is floor(visitors * r).                                               *)
IsFloorOf(k, visitors, r) ==
    /\ k * r.den <= visitors * r.num
    /\ visitors * r.num < (k + 1) * r.den

(* The conversions of the last configured stage in a stage_data dict.      *)
FinalConversions(data) ==
    Get(Get(data, sim_call.stages[Len(sim_call.stages)], EmptyDict), "conversions", 0)

ConsistentFunnel ==
    \A i \in PresentStages :
        PresentBefore(i) > 0 =>
            LET data == sim_call.stage_data[sim_call.stages[i]]
                previous == sim_call.stage_data[sim_call.stages[PresentBefore(i)]]
            IN  /\ data.visitors = previous.conversions
                /\ data.conversions <= data.visitors

-----------------------------------------------------------------------------
(* Frame properties of the engines.                                        *)

-----------------------------------------------------------------------------
(* Properties of the session's topic and dismissal lists.                  *)

NoDuplicates(s) == \A i, j \in 1..Len(s) : s[i] = s[j] => i = j

(* C27: across every request on the session discussed_topics and           *)
(* dismissed_suggestions stay free of duplicates and keep every entry they *)
(* held, and after a track-topics request every topic extracted from its   *)
(* message is in discussed_topics.                                         *)
C27_SessionListsGrow ==
    [][/\ NoDuplicates(session'.discussed_topics)
       /\ NoDuplicates(session'.dismissed_suggestions)
       /\ Range(session.discussed_topics) \subseteq Range(session'.discussed_topics)
       /\ Range(session.dismissed_suggestions) \subseteq Range(session'.dismissed_suggestions)
       /\ \A m \in SessionMessages :
              api_track_topics(m.content) =>
                  Range(extract_topics(m.content)) \subseteq Range(session'.discussed_topics)]_vars

-----------------------------------------------------------------------------
(* Properties of the id counter on an engine used sequentially.            *)

(* The counter when call k was entered: the counter at the return of the   *)
(* call before it, 0 on the new engine.                                    *)
CounterBefore(k) == IF k = 1 THEN 0 ELSE alert_log[k - 1].counter

(* The counter values of the alerts in a list.                             *)
IdsOf(alerts) == {alerts[i].id : i \in 1..Len(alerts)}

(* C28: every returned call advanced the counter by the number of alerts   *)
(* it returned, a call without a breach left it unchanged, the alerts of a *)
(* call carry exactly the counter values above those of all earlier calls, *)
(* and within the call in progress the alerts carry increasing values in   *)
(* evaluation order, all above those of the returned calls.                *)
C28_CounterCountsAlerts ==
    /\ \A k \in 1..Len(alert_log) :
           /\ alert_log[k].counter = CounterBefore(k) + Len(alert_log[k].alerts)
           /\ Len(alert_log[k].alerts) = 0 => alert_log[k].counter = CounterBefore(k)
           /\ IdsOf(alert_log[k].alerts) = (CounterBefore(k) + 1)..alert_log[k].counter
    /\ \A i \in 1..Len(threads[1].alerts) :
           threads[1].alerts[i].id > CounterBefore(Len(alert_log) + 1)
    /\ threads[1].pc \in {"eval", "gen_read", "gen_write", "gen_format"} =>
           \A i, j \in 1..Len(threads[1].alerts) :
               i < j => threads[1].alerts[i].id < threads[1].alerts[j].id

(* Three calls have returned on the engine: one with three alerts, one     *)
(* without a breach, one with alerts again.                                *)
C28_Witness ==
    /\ Len(alert_log) = 3
    /\ Len(alert_log[1].alerts) = 3
    /\ Len(alert_log[2].alerts) = 0
    /\ Len(alert_log[3].alerts) > 0
    /\ alert_log[3].counter > alert_log[1].counter

-----------------------------------------------------------------------------
(* Properties of the efficiency score of channels with a zero benchmark.   *)

(* The performances of the mix for one channel type.                       *)
PerformancesOf(channel) ==
    {i \in 1..Len(mix.channel_performances) : mix.channel_performances[i].channel = channel}

(* C29: every efficiency score lies in 0..100; a Direct channel scores at  *)
(* most 55 and a Social (Organic) channel at most 75; a Direct channel is  *)
(* never a top performer, its shift is never positive, it is below the 60  *)
(* of the hold tier, and a shift reported for it is a reduction.           *)
C29_ZeroBenchmarkCeilings ==
    ch_pc = "done" =>
        /\ \A i \in 1..Len(mix.channel_performances) :
               /\ FGe(mix.channel_performances[i].efficiency_score, FInt(0))
               /\ FLe(mix.channel_performances[i].efficiency_score, FInt(100))
        /\ \A i \in PerformancesOf("Social (Organic)") :
               FLe(mix.channel_performances[i].efficiency_score, FInt(75))
        /\ \A i \in PerformancesOf("Direct") :
               LET p == mix.channel_performances[i]
               IN  /\ FLe(p.efficiency_score, FInt(55))
                   /\ FLt(p.efficiency_score, FInt(60))
                   /\ FLe(BudgetShift(p, mix.total_spend), FInt(0))
        /\ "Direct" \notin Range(mix.top_performers)
        /\ "Direct" \in DOMAIN mix.recommended_budget_shifts =>
               FLt(mix.recommended_budget_shifts["Direct"], FInt(0))

(* Direct and Social (Organic) with every sub-score at its cap: Direct     *)
(* scores 55 and Social (Organic) 75, only the latter is a top performer,  *)
(* and a reduction is reported for Direct.                                 *)
C29_Witness ==
    /\ ch_pc = "done"
    /\ \E i \in PerformancesOf("Direct") :
           mix.channel_performances[i].efficiency_score = FInt(55)
    /\ \E i \in PerformancesOf("Social (Organic)") :
           mix.channel_performances[i].efficiency_score = FInt(75)
    /\ "Social (Organic)" \in Range(mix.top_performers)
    /\ "Direct" \notin Range(mix.top_performers)
    /\ "Direct" \in DOMAIN mix.recommended_budget_shifts

====
